---- MODULE Spec2Model ----
(***************************************************************************)
(* Verification model of custom-type-enforcement: the structural duplicate *)
(* detector (checks/type-duplicates.ts) and the export classifier          *)
(* (checks/type-exports.ts).                                               *)
(***************************************************************************)
EXTENDS Integers, Sequences, FiniteSets, TLC

VARIABLES
    \* one call of compareTypes
    cmpPc,          \* "idle" before the call, "done" after it, "off" elsewhere
    type1,          \* first argument of the call
    type2,          \* second argument of the call
    match,          \* value returned by the call (Null before it)
    \* one run of runTypeDuplicatesCheck
    pc,             \* "extract" | "compare" | "report" | "done" | "off"
    files,          \* list returned by getTypeScriptFiles: <<[path, lines]>>
    fileIdx,        \* index of the next file to extract
    allTypes,       \* TypeDefinitions extracted so far
    ci, cj,         \* indices i and j of the pairwise loop (from 1)
    processedPairs, \* set of pair keys already seen
    matches,        \* DuplicateMatches found so far
    violations,     \* Formatter.violations
    suggestions,    \* Formatter.suggestions
    result,         \* the CheckResult returned (NoResult before the return)
    \* one call of scanFileForTypeExports
    scanPc,         \* "scan" | "done" | "off"
    scanPath,       \* filePath
    scanLines,      \* content.split('\n'), each line a tuple of characters
    scanIndex,      \* index of the next line of lines.forEach (from 1)
    scanViolations, \* the violations array of the call
    \* the project on disk
    tsconfigExists, \* fs.existsSync(tsconfigPath)
    \* one run of runTypeExportsCheck
    runPc,          \* "files" | "scan" | "done" | "exited" | "off"
    runFiles,       \* list returned by getTypeScriptFiles: <<[path, lines]>>
    runIndex,       \* index of the next file of files.forEach (from 1)
    runPatterns,    \* options.allowExportsPatterns
    runViolations,  \* Formatter.violations
    runResult,      \* the CheckResult returned, or the exit of the process
    \* one call of getTypeScriptFiles
    gtfPc,          \* "start" | "explicit" | "include" | "done" | "null" |
                    \* "raised" | "off"
    tsconfig,       \* tsconfig.json: whether it parses, and what it holds
    fsEntries,      \* the files and directories below the project root
    gtfIndex,       \* index of the next explicit file or include pattern
    allFiles,       \* the allFiles array of the call
    gtfResult,      \* the value returned
    options,        \* the options of the call, but for projectRoot
    unreadable,     \* the directories that fs.readdirSync cannot read
    \* one test of a glob pattern on a relative path
    globPc,         \* "test" | "done" | "off"
    globPattern,    \* the argument of globToRegex
    globPath,       \* the argument of regex.test
    globMatched,    \* the value of the test (FALSE before it)
    \* one call of extractFields
    efPc,             \* "scan" | "done" | "raised" | "off"
    efLines,          \* the argument lines
    efStartLine,      \* the argument startLine (from 1)
    efI,              \* the loop index i (from 1)
    efBraceCount,     \* braceCount
    efFoundOpenBrace, \* foundOpenBrace
    efFields          \* fields

cmpVars == <<cmpPc, type1, type2, match>>
dupVars == <<pc, files, fileIdx, allTypes, ci, cj, processedPairs, matches,
             violations, suggestions, result>>
expVars == <<scanPc, scanPath, scanLines, scanIndex, scanViolations>>
runVars == <<runPc, runFiles, runIndex, runPatterns, runViolations, runResult>>
globVars == <<globPc, globPattern, globPath, globMatched>>
filesVars == <<gtfPc, tsconfig, fsEntries, gtfIndex, allFiles, gtfResult,
               options, unreadable>>
gtfVars == <<filesVars, globVars>>
fieldVars == <<efPc, efLines, efStartLine, efI, efBraceCount, efFoundOpenBrace,
               efFields>>
vars == <<cmpVars, dupVars, expVars, tsconfigExists, runVars, gtfVars, fieldVars>>

----------------------------------------------------------------------------
(* Bounds and input alphabets *)

\* longest field list of a compared type
MaxFields == 3

\* extractTypeDefinitions keeps a declaration only with this many fields
MinFields == 2

\* FieldDefinition values the compared types are built from: a field whose
\* declared type differs between declarations ("id"), one whose optionality
\* differs ("name"), and one that a declaration may or may not have ("email").
Fields ==
    { [name |-> "id",    type |-> "string", optional |-> FALSE],
      [name |-> "id",    type |-> "number", optional |-> FALSE],
      [name |-> "name",  type |-> "string", optional |-> FALSE],
      [name |-> "name",  type |-> "string", optional |-> TRUE],
      [name |-> "email", type |-> "string", optional |-> FALSE] }

FieldLists == UNION { [1..n -> Fields] : n \in MinFields..MaxFields }

Null == [matchType |-> "null"]

----------------------------------------------------------------------------
(* Helpers over sequences *)

Range(s) == { s[k] : k \in 1..Len(s) }

Count(s, x) == Cardinality({ k \in 1..Len(s) : s[k] = x })

----------------------------------------------------------------------------
(* compareTypes and its rules *)

\* `${f.name}${f.optional ? '?' : ''}:${f.type}`
Signature(f) == <<f.name, f.optional, f.type>>

\* equal lengths and equal sorted signature lists: equal signature multisets
areFieldsExactMatch(fields1, fields2) ==
    /\ Len(fields1) = Len(fields2)
    /\ \A f \in Range(fields1) \cup Range(fields2) :
          Count([k \in 1..Len(fields1) |-> Signature(fields1[k])], Signature(f))
            = Count([k \in 1..Len(fields2) |-> Signature(fields2[k])], Signature(f))

IsRequired(f) == ~f.optional
IsOptional(f) == f.optional

OptionalVarianceSuggestion == "same required fields but different optional fields"

\* checkOptionalVariance without the comparison of the required fields
checkOptionalVariance_anyRequired(fields1, fields2) ==
    LET optional1 == SelectSeq(fields1, IsOptional)
        optional2 == SelectSeq(fields2, IsOptional)
    IN  IF Len(optional1) = 0 /\ Len(optional2) = 0 THEN Null
        ELSE IF Len(optional1) # Len(optional2)
             THEN [matchType |-> "optional-variance",
                   suggestion |-> OptionalVarianceSuggestion]
        ELSE Null

checkOptionalVariance(fields1, fields2) ==
    LET required1 == SelectSeq(fields1, IsRequired)
        required2 == SelectSeq(fields2, IsRequired)
        optional1 == SelectSeq(fields1, IsOptional)
        optional2 == SelectSeq(fields2, IsOptional)
    IN  IF Len(required1) = 0 /\ Len(required2) = 0 THEN Null
        ELSE IF ~areFieldsExactMatch(required1, required2) THEN Null
        ELSE IF Len(optional1) = 0 /\ Len(optional2) = 0 THEN Null
        ELSE IF Len(optional1) # Len(optional2)
             THEN [matchType |-> "optional-variance",
                   suggestion |-> OptionalVarianceSuggestion]
        ELSE Null

\* new Map(fields.map(f => [f.name, f])): keys in order of first insertion
RECURSIVE MapKeys(_)
MapKeys(fields) ==
    IF fields = <<>> THEN <<>>
    ELSE LET front == SubSeq(fields, 1, Len(fields) - 1)
             last  == fields[Len(fields)]
             keys  == MapKeys(front)
         IN  IF \E k \in 1..Len(keys) : keys[k] = last.name
             THEN keys ELSE Append(keys, last.name)

MapHas(fields, n) == \E k \in 1..Len(fields) : fields[k].name = n

\* Map.get: the entry set last under that key
MapGet(fields, n) ==
    LET last == CHOOSE k \in 1..Len(fields) :
                    /\ fields[k].name = n
                    /\ \A m \in (k+1)..Len(fields) : fields[m].name # n
    IN  fields[last]

\* Array.from(map.values())
MapValues(fields) ==
    LET keys == MapKeys(fields)
    IN  [k \in 1..Len(keys) |-> MapGet(fields, keys[k])]

\* fieldsA.every(fa => { fb = mapB.get(fa.name); fb && same type && same optional })
IsSubsetOf(valuesA, fieldsB) ==
    \A k \in 1..Len(valuesA) :
        /\ MapHas(fieldsB, valuesA[k].name)
        /\ MapGet(fieldsB, valuesA[k].name).type = valuesA[k].type
        /\ MapGet(fieldsB, valuesA[k].name).optional = valuesA[k].optional

\* valuesB.filter(fb => !mapA.has(fb.name)).map(f => f.name)
RECURSIVE OmittedFields(_, _)
OmittedFields(valuesB, fieldsA) ==
    IF valuesB = <<>> THEN <<>>
    ELSE IF MapHas(fieldsA, Head(valuesB).name)
         THEN OmittedFields(Tail(valuesB), fieldsA)
         ELSE <<Head(valuesB).name>> \o OmittedFields(Tail(valuesB), fieldsA)

checkSubsetRelationship(t1, t2) ==
    LET fields1 == MapValues(t1.fields)
        fields2 == MapValues(t2.fields)
    IN  IF IsSubsetOf(fields1, t2.fields) /\ Len(fields1) < Len(fields2)
        THEN [type1 |-> t1, type2 |-> t2, matchType |-> "subset",
              suggestion |-> <<"Omit", t1.name, t2.name,
                               OmittedFields(fields2, t1.fields)>>]
        ELSE IF IsSubsetOf(fields2, t1.fields) /\ Len(fields2) < Len(fields1)
        THEN [type1 |-> t2, type2 |-> t1, matchType |-> "superset",
              suggestion |-> <<"Omit", t2.name, t1.name,
                               OmittedFields(fields1, t2.fields)>>]
        ELSE Null

checkRequiredOpportunity(t1, t2) ==
    LET fields1 == t1.fields
        fields2 == t2.fields
        namesAndTypesMatch ==
            \A k \in 1..Len(fields1) :
                /\ MapHas(fields2, fields1[k].name)
                /\ MapGet(fields2, fields1[k].name).type = fields1[k].type
        allRequired1 == \A k \in 1..Len(fields1) : ~fields1[k].optional
        allRequired2 == \A k \in 1..Len(fields2) : ~fields2[k].optional
        hasOptional1 == \E k \in 1..Len(fields1) : fields1[k].optional
        hasOptional2 == \E k \in 1..Len(fields2) : fields2[k].optional
    IN  IF Len(fields1) # Len(fields2) THEN Null
        ELSE IF ~namesAndTypesMatch THEN Null
        ELSE IF allRequired1 /\ hasOptional2
        THEN [type1 |-> t1, type2 |-> t2, matchType |-> "required-opportunity",
              suggestion |-> <<"Required", t1.name, t2.name>>]
        ELSE IF allRequired2 /\ hasOptional1
        THEN [type1 |-> t2, type2 |-> t1, matchType |-> "required-opportunity",
              suggestion |-> <<"Required", t2.name, t1.name>>]
        ELSE Null

\* compareTypes after its same-file guard: the four rules in order
matchRules(t1, t2) ==
    IF areFieldsExactMatch(t1.fields, t2.fields)
    THEN [type1 |-> t1, type2 |-> t2, matchType |-> "exact",
          suggestion |-> <<"identical", t1.name, t2.name>>]
    ELSE IF checkOptionalVariance(t1.fields, t2.fields) # Null
    THEN [type1 |-> t1, type2 |-> t2, matchType |-> "optional-variance",
          suggestion |-> checkOptionalVariance(t1.fields, t2.fields).suggestion]
    ELSE IF checkSubsetRelationship(t1, t2) # Null
    THEN checkSubsetRelationship(t1, t2)
    ELSE checkRequiredOpportunity(t1, t2)

\* compareTypes with the same-file guard left out
compareTypes_noFileGuard(t1, t2) == matchRules(t1, t2)

compareTypes(t1, t2) ==
    IF t1.filePath = t2.filePath THEN Null
    ELSE matchRules(t1, t2)

----------------------------------------------------------------------------
(* One call of compareTypes on an arbitrary pair of extracted types *)

NoType == [name |-> "", filePath |-> "", line |-> 0, fields |-> <<>>]

ComparePaths == {"src/types/a.ts", "src/types/b.ts"}

NoResult == [checkName |-> "none"]

\* the duplicate check is not running
DupOff ==
    /\ pc = "off" /\ files = <<>> /\ fileIdx = 0 /\ allTypes = <<>>
    /\ ci = 0 /\ cj = 0 /\ processedPairs = {} /\ matches = <<>>
    /\ violations = <<>> /\ suggestions = <<>> /\ result = NoResult

\* no compareTypes call is being observed on its own
CmpOff ==
    /\ cmpPc = "off" /\ type1 = NoType /\ type2 = NoType /\ match = Null

\* no file is being scanned for exports
ExpOff ==
    /\ scanPc = "off" /\ scanPath = "" /\ scanLines = <<>> /\ scanIndex = 0
    /\ scanViolations = <<>>

\* runTypeExportsCheck is not running
RunOff ==
    /\ runPc = "off" /\ runFiles = <<>> /\ runIndex = 0 /\ runPatterns = <<>>
    /\ runViolations = <<>> /\ runResult = NoResult

NoConfig ==
    [parses |-> TRUE, hasInclude |-> FALSE, include |-> <<>>, exclude |-> <<>>,
     files |-> <<>>]

\* getTypeScriptFiles({ projectRoot })
NoOptions == [hasExcludePatterns |-> FALSE, excludePatterns |-> <<>>]

\* no glob test is being observed
GlobOff ==
    /\ globPc = "off" /\ globPattern = <<>> /\ globPath = <<>>
    /\ globMatched = FALSE

\* getTypeScriptFiles is not being observed on its own
FilesOff ==
    /\ gtfPc = "off" /\ tsconfig = NoConfig /\ fsEntries = {} /\ gtfIndex = 0
    /\ allFiles = <<>> /\ gtfResult = <<>> /\ options = NoOptions
    /\ unreadable = {}

\* no extractFields call is being observed on its own
FieldsOff ==
    /\ efPc = "off" /\ efLines = <<>> /\ efStartLine = 0 /\ efI = 0
    /\ efBraceCount = 0 /\ efFoundOpenBrace = FALSE /\ efFields = <<>>

\* neither the file enumeration nor a glob test is being observed
GtfOff == FilesOff /\ GlobOff

\* type1 is any extracted type; type2 is not yet chosen
InitCompare ==
    /\ cmpPc = "idle"
    /\ \E f1 \in FieldLists :
          type1 = [name |-> "User", filePath |-> "src/types/a.ts",
                   line |-> 1, fields |-> f1]
    /\ type2 = NoType
    /\ match = Null
    /\ DupOff
    /\ ExpOff
    /\ tsconfigExists = TRUE
    /\ RunOff
    /\ GtfOff /\ FieldsOff

\* compareTypes(type1, type2) for any second extracted type, of the same
\* file or of another one
CallCompareTypes ==
    /\ cmpPc = "idle"
    /\ \E f2 \in FieldLists, p2 \in ComparePaths :
          /\ type2' = [name |-> "Customer", filePath |-> p2,
                       line |-> 2, fields |-> f2]
          /\ match' = compareTypes(type1, type2')
    /\ cmpPc' = "done"
    /\ UNCHANGED <<type1, dupVars, expVars, tsconfigExists,
                   runVars, gtfVars, fieldVars>>

NextCompare == CallCompareTypes

SpecCompare == InitCompare /\ [][NextCompare]_vars

----------------------------------------------------------------------------
(* Source lines, as far as extractTypeDefinitions and extractFields read them *)

NoField == [name |-> "", type |-> "", optional |-> FALSE]

\* A line is what the code's tests of it see:
\*   marker      line.includes('// @type-duplicate-allowed')
\*   decl        group 1 of /(?:export\s+)?(?:type|interface)\s+(\w+)\s*[={]/, "" if no match
\*   opens       number of '{' in the line
\*   closes      number of '}' in the line
\*   braceFirst  line.trim().startsWith('{')
\*   field       the match of /^\s*(\w+)(\?)?:\s*(.+?)(?:[;,]|$)/, NoField if none
PlainLine == [marker |-> FALSE, decl |-> "", opens |-> 0, closes |-> 0,
              braceFirst |-> FALSE, field |-> NoField]

\* "// @type-duplicate-allowed"
MarkerLine == [PlainLine EXCEPT !.marker = TRUE]
\* "export interface <n> {", with the marker as a trailing comment or not
DeclLine(n, marked) == [PlainLine EXCEPT !.decl = n, !.opens = 1, !.marker = marked]
\* "export type <n> = string | number;"
AliasLine(n, marked) == [PlainLine EXCEPT !.decl = n, !.marker = marked]
\* "  <name>[?]: <type>;"
FieldLine(f) == [PlainLine EXCEPT !.field = f]
\* "}"
CloseLine == [PlainLine EXCEPT !.closes = 1, !.braceFirst = FALSE]

\* extractFields: the loop from line i on
RECURSIVE extractFieldsFrom(_, _, _, _, _)
extractFieldsFrom(lines, i, braceCount, foundOpenBrace, fields) ==
    IF i > Len(lines) THEN fields
    ELSE LET line  == lines[i]
             count == braceCount + line.opens - line.closes
             found == foundOpenBrace \/ line.opens > 0
             got   == IF found /\ count > 0 /\ line.field # NoField
                      THEN Append(fields, line.field) ELSE fields
         IN  IF found /\ count = 0 THEN got
             ELSE extractFieldsFrom(lines, i + 1, count, found, got)

extractFields(lines, startLine) ==
    extractFieldsFrom(lines, startLine, 0, FALSE, <<>>)

\* extractTypeDefinitions keeping every declaration, whatever its field count
keepsDefinition_anyCount(fields) == TRUE

\* `if (fields.length >= 2)`: only types with 2+ fields are kept
keepsDefinition(fields) == Len(fields) >= MinFields

\* extractTypeDefinitions: the loop over the lines from line i on
RECURSIVE extractDefinitionsFrom(_, _, _, _)
extractDefinitionsFrom(filePath, lines, i, definitions) ==
    IF i > Len(lines) THEN definitions
    ELSE LET line == lines[i]
             isObjectType ==
                 \/ line.opens > 0
                 \/ (i + 1 <= Len(lines) /\ lines[i + 1].braceFirst)
             fields == extractFields(lines, i)
         IN  IF line.marker
             THEN extractDefinitionsFrom(filePath, lines, i + 1, definitions)
             ELSE IF line.decl # "" /\ isObjectType /\ keepsDefinition(fields)
             THEN extractDefinitionsFrom(filePath, lines, i + 1,
                      Append(definitions,
                             [name |-> line.decl, filePath |-> filePath,
                              line |-> i, fields |-> fields]))
             ELSE extractDefinitionsFrom(filePath, lines, i + 1, definitions)

\* content.includes('// @type-duplicate-allowed')
ContentHasMarker(lines) == \E k \in 1..Len(lines) : lines[k].marker

extractTypeDefinitions(file) ==
    IF ContentHasMarker(file.lines) THEN <<>>
    ELSE extractDefinitionsFrom(file.path, file.lines, 1, <<>>)

----------------------------------------------------------------------------
(* File paths as text *)

\* the characters of a path of the model
PathText(path) ==
    CASE path = "src/models/user.ts" ->
           <<"s","r","c","/","m","o","d","e","l","s","/","u","s","e","r",".","t","s">>
      [] path = "src/types.ts" ->
           <<"s","r","c","/","t","y","p","e","s",".","t","s">>
      [] path = "src/types/user.ts" ->
           <<"s","r","c","/","t","y","p","e","s","/","u","s","e","r",".","t","s">>

\* String.prototype.endsWith
EndsWith(text, suffix) ==
    /\ Len(suffix) <= Len(text)
    /\ SubSeq(text, Len(text) - Len(suffix) + 1, Len(text)) = suffix

\* String.prototype.includes
Includes(text, part) ==
    \E k \in 1..(Len(text) - Len(part) + 1) :
        \A j \in 1..Len(part) : text[k + j - 1] = part[j]

isTypesFile_directoryOnly(path) ==
    Includes(PathText(path), <<"/","t","y","p","e","s","/">>)

\* isTypesFile: the path ends with types.ts or lies in a types/ directory
isTypesFile(path) ==
    \/ EndsWith(PathText(path), <<"t","y","p","e","s",".","t","s">>)
    \/ Includes(PathText(path), <<"/","t","y","p","e","s","/">>)

----------------------------------------------------------------------------
(* The pairwise loop of runTypeDuplicatesCheck *)

\* [file1, name1, file2, name2].sort().join('|'): two keys are equal exactly
\* when the four strings are the same multiset, here string |-> occurrences
pairKey(t1, t2) ==
    LET four == <<t1.filePath, t1.name, t2.filePath, t2.name>>
    IN  [x \in Range(four) |-> Count(four, x)]

\* the body of the inner loop for allTypes[i], allTypes[j]:
\* st = [processedPairs, matches] before, the value is st after
comparePair(types, i, j, st) ==
    LET key == pairKey(types[i], types[j])
        m   == compareTypes(types[i], types[j])
    IN  IF key \in st.processedPairs THEN st
        ELSE [processedPairs |-> st.processedPairs \cup {key},
              matches |-> IF m # Null THEN Append(st.matches, m) ELSE st.matches]

\* the pair the loop visits after (i, j) in a list of n types
NextI(i, j, n) == IF j < n THEN i ELSE i + 1
NextJ(i, j, n) == IF j < n THEN j + 1 ELSE i + 2

\* the whole loop as a function of the list of types
RECURSIVE comparePairsFrom(_, _, _, _)
comparePairsFrom(types, i, j, st) ==
    IF i >= Len(types) \/ j > Len(types) THEN st
    ELSE comparePairsFrom(types, NextI(i, j, Len(types)), NextJ(i, j, Len(types)),
                          comparePair(types, i, j, st))

compareAllPairs(types) ==
    comparePairsFrom(types, 1, 2, [processedPairs |-> {}, matches |-> <<>>]).matches

\* match.matchType.toUpperCase()
UpperCase(kind) ==
    CASE kind = "exact" -> "EXACT"
      [] kind = "optional-variance" -> "OPTIONAL-VARIANCE"
      [] kind = "subset" -> "SUBSET"
      [] kind = "superset" -> "SUPERSET"
      [] kind = "required-opportunity" -> "REQUIRED-OPPORTUNITY"

\* the violation handed to formatter.addViolation for one match
violationOf(m) ==
    [file |-> m.type1.filePath, line |-> m.type1.line,
     message |-> <<m.type1.name, m.type1.filePath, m.type1.line,
                   m.type2.name, m.type2.filePath, m.type2.line>>,
     type |-> UpperCase(m.matchType), severity |-> "WARNING"]

----------------------------------------------------------------------------
(* Projects the duplicate check runs on *)

TypeNames == {"User", "Customer"}

\* declaration bodies: the README's User (3 fields) and PublicUser (2
\* fields), a one-field type, and a type alias that is not an object type
DeclShapes ==
    { <<[name |-> "id", type |-> "string", optional |-> FALSE],
        [name |-> "name", type |-> "string", optional |-> FALSE],
        [name |-> "email", type |-> "string", optional |-> FALSE]>>,
      <<[name |-> "id", type |-> "string", optional |-> FALSE],
        [name |-> "name", type |-> "string", optional |-> FALSE]>>,
      <<[name |-> "id", type |-> "string", optional |-> FALSE]>>,
      <<>> }

\* the names a file declares, in order, none twice
NameOrders ==
    { ns \in UNION { [1..n -> TypeNames] : n \in 1..Cardinality(TypeNames) } :
        \A k, m \in 1..Len(ns) : ns[k] = ns[m] => k = m }

\* the declarations of one file: <<[name, shape]>>
FileDecls ==
    UNION { { [k \in 1..Len(ns) |-> [name |-> ns[k], shape |-> sh[k]]] :
                sh \in [1..Len(ns) -> DeclShapes] } : ns \in NameOrders }

\* where a file carries the suppression marker: nowhere, on the line above
\* declaration `at`, or at the end of the first line of declaration `at`
MarkerPlaces(decls) ==
    { [at |-> 0, how |-> "none"] }
    \cup { [at |-> k, how |-> h] : k \in 1..Len(decls), h \in {"above", "inline"} }

FieldLines(shape) == [k \in 1..Len(shape) |-> FieldLine(shape[k])]

\* the source lines of declaration k of a file
DeclText(decls, k, place) ==
    LET d      == decls[k]
        above  == place.at = k /\ place.how = "above"
        inline == place.at = k /\ place.how = "inline"
    IN  (IF above THEN <<MarkerLine>> ELSE <<>>)
        \o (IF d.shape = <<>>
            THEN <<AliasLine(d.name, inline)>>
            ELSE <<DeclLine(d.name, inline)>> \o FieldLines(d.shape) \o <<CloseLine>>)

RECURSIVE FileText(_, _, _)
FileText(decls, k, place) ==
    IF k > Len(decls) THEN <<>>
    ELSE DeclText(decls, k, place) \o FileText(decls, k + 1, place)

\* paths of the enumerated files, in the enumerator's (lexical) order: a file
\* that is no type module, a types.ts, and a file of a types/ directory
ProjectPaths == <<"src/models/user.ts", "src/types.ts", "src/types/user.ts">>

\* one file's declarations and where its marker is
FileChoices ==
    UNION { { [decls |-> d, place |-> m] : m \in MarkerPlaces(d) } : d \in FileDecls }

SourceFile(path, choice) ==
    [path |-> path, lines |-> FileText(choice.decls, 1, choice.place)]

\* projects of two files, at most one of them carrying a marker
Projects ==
    { << SourceFile(ProjectPaths[c[1]], c[3]), SourceFile(ProjectPaths[c[2]], c[4]) >> :
        c \in { x \in (1..Len(ProjectPaths)) \X (1..Len(ProjectPaths))
                        \X FileChoices \X FileChoices :
                  /\ x[1] < x[2]
                  /\ (x[3].place.how = "none" \/ x[4].place.how = "none") } }

----------------------------------------------------------------------------
(* runTypeDuplicatesCheck, with noExit *)

InitDup ==
    /\ pc = "extract"
    /\ files \in Projects \cup { <<>> }
    /\ fileIdx = 1
    /\ allTypes = <<>>
    /\ ci = 0 /\ cj = 0
    /\ processedPairs = {}
    /\ matches = <<>>
    /\ violations = <<>>
    /\ suggestions = <<>>
    /\ result = NoResult
    /\ CmpOff
    /\ ExpOff
    /\ tsconfigExists \in BOOLEAN
    /\ ~tsconfigExists => files = <<>>
    /\ RunOff
    /\ GtfOff /\ FieldsOff

\* `if (!files || files.length === 0)`: finish with exit code 0 and return
EarlyReturn ==
    /\ pc = "extract"
    /\ ~tsconfigExists \/ Len(files) = 0
    /\ result' = [checkName |-> "type-duplicates", passed |-> TRUE,
                  violationCount |-> 0, exitCode |-> 0, violations |-> <<>>]
    /\ pc' = "done"
    /\ UNCHANGED <<files, fileIdx, allTypes, ci, cj, processedPairs, matches,
                   violations, suggestions, cmpVars, expVars, tsconfigExists,
                   runVars, gtfVars, fieldVars>>

\* one iteration of `for (const file of files)`
ExtractFile ==
    /\ pc = "extract"
    /\ fileIdx <= Len(files)
    /\ allTypes' = allTypes \o extractTypeDefinitions(files[fileIdx])
    /\ fileIdx' = fileIdx + 1
    /\ IF fileIdx = Len(files)
       THEN pc' = "compare" /\ ci' = 1 /\ cj' = 2
       ELSE UNCHANGED <<pc, ci, cj>>
    /\ UNCHANGED <<files, processedPairs, matches, violations, suggestions,
                   result, cmpVars, expVars, tsconfigExists,
                   runVars, gtfVars, fieldVars>>

\* one iteration of the inner loop over (i, j), i < j
ComparePair ==
    /\ pc = "compare"
    /\ ci < Len(allTypes) /\ cj <= Len(allTypes)
    /\ LET st == comparePair(allTypes, ci, cj,
                             [processedPairs |-> processedPairs, matches |-> matches])
       IN  /\ processedPairs' = st.processedPairs
           /\ matches' = st.matches
    /\ ci' = NextI(ci, cj, Len(allTypes))
    /\ cj' = NextJ(ci, cj, Len(allTypes))
    /\ UNCHANGED <<pc, files, fileIdx, allTypes, violations, suggestions,
                   result, cmpVars, expVars, tsconfigExists,
                   runVars, gtfVars, fieldVars>>

reportExitCode_zero(found) == 0

\* formatter.finish with exitCode: 1 when there are matches, else exitCode: 0
reportExitCode(found) == IF Len(found) > 0 THEN 1 ELSE 0

\* after the loop: one violation and one suggestion per match, finish, return
Report ==
    /\ pc = "compare"
    /\ ~(ci < Len(allTypes) /\ cj <= Len(allTypes))
    /\ violations' = [k \in 1..Len(matches) |-> violationOf(matches[k])]
    /\ suggestions' = [k \in 1..Len(matches) |-> matches[k].suggestion]
    /\ LET exitCode == reportExitCode(matches)
       IN  result' = [checkName |-> "type-duplicates",
                      passed |-> (exitCode = 0),
                      violationCount |-> Len(violations'),
                      exitCode |-> exitCode,
                      violations |-> [k \in 1..Len(violations') |->
                                         [file |-> violations'[k].file,
                                          line |-> violations'[k].line,
                                          message |-> violations'[k].message]]]
    /\ pc' = "done"
    /\ UNCHANGED <<files, fileIdx, allTypes, ci, cj, processedPairs, matches,
                   cmpVars, expVars, tsconfigExists,
                   runVars, gtfVars, fieldVars>>

NextDup == EarlyReturn \/ ExtractFile \/ ComparePair \/ Report

SpecDup == InitDup /\ [][NextDup]_vars

----------------------------------------------------------------------------
(* The matching rules as the specification states them *)

\* the same multiset of FieldDefinitions, whatever the order
SameFields(fields1, fields2) ==
    /\ Len(fields1) = Len(fields2)
    /\ \E p \in [1..Len(fields1) -> 1..Len(fields1)] :
          /\ \A k, m \in 1..Len(fields1) : k # m => p[k] # p[m]
          /\ \A k \in 1..Len(fields1) : fields1[k] = fields2[p[k]]

RequiredOf(fields) == SelectSeq(fields, IsRequired)
OptionalOf(fields) == SelectSeq(fields, IsOptional)

\* every field of `small` is a field of `large`: same name, type, optionality
FieldsContained(small, large) == Range(small) \subseteq Range(large)

NamesOf(fields) == { fields[k].name : k \in 1..Len(fields) }

Compared == cmpPc = "done"
DifferentFiles == type1.filePath # type2.filePath

----------------------------------------------------------------------------
(* C3: compareTypes returns no match whenever both types have the same file
   path, whatever their fields; a match relates types of different files. *)
C3_NoSameFileMatch ==
    Compared =>
        /\ (type1.filePath = type2.filePath => match = Null)
        /\ (match # Null => match.type1.filePath # match.type2.filePath)

\* a same-file pair with identical fields has been compared and gave no match
C3_Witness ==
    /\ Compared
    /\ type1.filePath = type2.filePath
    /\ SameFields(type1.fields, type2.fields)
    /\ match = Null

(* C6 as stated: a pair is optional-variance only when the required fields
   are an exact match, BOTH types have an optional field, and the numbers of
   optional fields differ. *)
C6_BothHaveOptional ==
    (Compared /\ match.matchType = "optional-variance") =>
        /\ SameFields(RequiredOf(type1.fields), RequiredOf(type2.fields))
        /\ Len(OptionalOf(type1.fields)) >= 1
        /\ Len(OptionalOf(type2.fields)) >= 1
        /\ Len(OptionalOf(type1.fields)) # Len(OptionalOf(type2.fields))

(* C6 amended: a pair is optional-variance only when the required fields are
   an exact match and not empty, AT LEAST ONE of the types has an optional
   field, and the numbers of optional fields differ. *)
C6_OptionalVarianceOnlyWhen ==
    (Compared /\ match.matchType = "optional-variance") =>
        /\ SameFields(RequiredOf(type1.fields), RequiredOf(type2.fields))
        /\ Len(RequiredOf(type1.fields)) >= 1
        /\ Len(OptionalOf(type1.fields)) + Len(OptionalOf(type2.fields)) >= 1
        /\ Len(OptionalOf(type1.fields)) # Len(OptionalOf(type2.fields))

\* an optional-variance match where one of the types has no optional field
C6_Witness ==
    /\ Compared
    /\ match.matchType = "optional-variance"
    /\ Len(OptionalOf(type1.fields)) = 0
    /\ Len(OptionalOf(type2.fields)) >= 1

\* the type of the compared pair with fewer fields, and the other one
SmallerType == IF Len(type1.fields) < Len(type2.fields) THEN type1 ELSE type2
LargerType  == IF Len(type1.fields) < Len(type2.fields) THEN type2 ELSE type1

\* the premise of the Subset/Superset rule once the two rules before it in
\* compareTypes have returned nothing
SubsetRulePremise ==
    /\ Compared /\ DifferentFiles
    /\ Len(type1.fields) # Len(type2.fields)
    /\ FieldsContained(SmallerType.fields, LargerType.fields)
    /\ ~areFieldsExactMatch(type1.fields, type2.fields)
    /\ checkOptionalVariance(type1.fields, type2.fields) = Null

(* C5: when every field of the type with fewer fields exists in the other
   type with identical declared type and optionality, the field counts
   differ and no earlier rule matched, the match is subset/superset, its
   first type is the smaller one, and the omission list of its suggestion is
   exactly the set of field names present only in the larger type. *)
C5_SubsetMatch ==
    SubsetRulePremise =>
        /\ match.matchType =
              (IF SmallerType = type1 THEN "subset" ELSE "superset")
        /\ match.type1 = SmallerType
        /\ match.type2 = LargerType
        /\ match.suggestion[1] = "Omit"
        /\ Range(match.suggestion[4]) =
              NamesOf(LargerType.fields) \ NamesOf(SmallerType.fields)

\* the rules of the specification, each as a predicate of two field lists
RuleExact(fields1, fields2) == SameFields(fields1, fields2)

RuleOptionalVariance(fields1, fields2) ==
    /\ SameFields(RequiredOf(fields1), RequiredOf(fields2))
    /\ Len(OptionalOf(fields1)) >= 1
    /\ Len(OptionalOf(fields2)) >= 1
    /\ Len(OptionalOf(fields1)) # Len(OptionalOf(fields2))

RuleSubset(fields1, fields2) ==
    \/ Len(fields1) < Len(fields2) /\ FieldsContained(fields1, fields2)
    \/ Len(fields2) < Len(fields1) /\ FieldsContained(fields2, fields1)

RuleRequiredOpportunity(fields1, fields2) ==
    /\ Len(fields1) = Len(fields2)
    /\ NamesOf(fields1) = NamesOf(fields2)
    /\ \A f \in Range(fields1), g \in Range(fields2) :
          f.name = g.name => f.type = g.type
    /\ \/ Len(OptionalOf(fields1)) = 0 /\ Len(OptionalOf(fields2)) >= 1
       \/ Len(OptionalOf(fields2)) = 0 /\ Len(OptionalOf(fields1)) >= 1

AnyRule(fields1, fields2) ==
    \/ RuleExact(fields1, fields2)
    \/ RuleOptionalVariance(fields1, fields2)
    \/ RuleSubset(fields1, fields2)
    \/ RuleRequiredOpportunity(fields1, fields2)

\* the kind of the first rule satisfied, "null" when none is
FirstRuleKind(fields1, fields2) ==
    IF RuleExact(fields1, fields2) THEN "exact"
    ELSE IF RuleOptionalVariance(fields1, fields2) THEN "optional-variance"
    ELSE IF RuleSubset(fields1, fields2)
         THEN (IF Len(fields1) < Len(fields2) THEN "subset" ELSE "superset")
    ELSE IF RuleRequiredOpportunity(fields1, fields2) THEN "required-opportunity"
    ELSE "null"

(* C7: for every compared pair from different files the reported matchKind
   is that of the first rule satisfied in the order Exact, OptionalVariance,
   Subset/Superset, RequiredOpportunity, and a pair satisfying none of the
   four rules yields no match. *)
C7_FirstRuleWins ==
    (Compared /\ DifferentFiles) =>
        match.matchType = FirstRuleKind(type1.fields, type2.fields)

----------------------------------------------------------------------------
(* Claims about a whole run of the duplicate check *)

Extracted == pc \in {"compare", "done"}
Reported  == pc = "done" /\ Len(files) > 0

\* the matches that relate the two given types, in either order
MatchesOf(t1, t2) ==
    { k \in 1..Len(matches) :
        {matches[k].type1, matches[k].type2} = {t1, t2} }

(* C1: for every unordered pair of extracted TypeDefinitions from different
   files that satisfies at least one matching rule, exactly one
   DuplicateMatch is produced; two types of different files with identical
   field-signature multisets yield exactly one match, of kind exact. *)
C1_ExactlyOneMatchPerPair ==
    Reported =>
        \A k, m \in 1..Len(allTypes) :
            (/\ k < m
             /\ allTypes[k].filePath # allTypes[m].filePath
             /\ AnyRule(allTypes[k].fields, allTypes[m].fields))
            => /\ Cardinality(MatchesOf(allTypes[k], allTypes[m])) = 1
               /\ RuleExact(allTypes[k].fields, allTypes[m].fields)
                    => \A x \in MatchesOf(allTypes[k], allTypes[m]) :
                          matches[x].matchType = "exact"

\* a list of matches as a set: pair, kind and suggestion of each
MatchSet(ms) ==
    { [pair |-> {ms[k].type1, ms[k].type2}, kind |-> ms[k].matchType,
       suggestion |-> ms[k].suggestion] : k \in 1..Len(ms) }

\* the lists that hold the same TypeDefinitions as `types`, in any order
Reorderings(types) ==
    { [k \in 1..Len(types) |-> types[q[k]]] :
        q \in { f \in [1..Len(types) -> 1..Len(types)] :
                  \A k, m \in 1..Len(types) : f[k] = f[m] => k = m } }

(* C2: the result of the comparison phase does not depend on the order of
   its input: every permutation of the list of extracted TypeDefinitions
   gives the same matched pairs with the same kind and suggestion. *)
C2_OrderIndependent ==
    Reported =>
        \A other \in Reorderings(allTypes) :
            MatchSet(compareAllPairs(other)) = MatchSet(matches)

\* the declaration lines of a file: lines that start an object type
DeclLines(file) ==
    { i \in 1..Len(file.lines) :
        /\ file.lines[i].decl # ""
        /\ \/ file.lines[i].opens > 0
           \/ (i + 1 <= Len(file.lines) /\ file.lines[i + 1].braceFirst) }

\* the type at line i of the file was extracted / takes part in a match
IsExtracted(file, i) ==
    \E k \in 1..Len(allTypes) :
        allTypes[k].filePath = file.path /\ allTypes[k].line = i
InSomeMatch(file, i) ==
    \E k \in 1..Len(matches) :
        \/ matches[k].type1.filePath = file.path /\ matches[k].type1.line = i
        \/ matches[k].type2.filePath = file.path /\ matches[k].type2.line = i

(* C4: every TypeDefinition that extraction emits has at least 2 fields, and
   a declaration with fewer than 2 extracted fields takes part in no
   DuplicateMatch. *)
C4_AtLeastTwoFields ==
    /\ \A k \in 1..Len(allTypes) : Len(allTypes[k].fields) >= 2
    /\ \A k \in 1..Len(matches) :
          /\ Len(matches[k].type1.fields) >= 2
          /\ Len(matches[k].type2.fields) >= 2
    /\ \A n \in 1..Len(files) : \A i \in DeclLines(files[n]) :
          Len(extractFields(files[n].lines, i)) < 2
              => ~IsExtracted(files[n], i) /\ ~InSomeMatch(files[n], i)

\* the check has finished on an unmarked file that declares a one-field type
\* next to a type that was matched
C4_Witness ==
    /\ Reported
    /\ \E n \in 1..Len(files) :
          /\ ~ContentHasMarker(files[n].lines)
          /\ \E i \in DeclLines(files[n]) :
                Len(extractFields(files[n].lines, i)) = 1
          /\ \E i \in DeclLines(files[n]) : InSomeMatch(files[n], i)

(* C8: the duplicate detector extracts types only from type modules (path
   ending with types.ts or inside a types/ directory): a type declared in
   any other enumerated file never appears in a DuplicateMatch. *)
C8_OnlyTypeModules ==
    /\ \A k \in 1..Len(allTypes) : isTypesFile(allTypes[k].filePath)
    /\ \A k \in 1..Len(matches) :
          /\ isTypesFile(matches[k].type1.filePath)
          /\ isTypesFile(matches[k].type2.filePath)

\* the declaration at line i carries the marker: on its own line or on the
\* line directly above
IsMarked(file, i) ==
    \/ file.lines[i].marker
    \/ (i > 1 /\ file.lines[i - 1].marker)

(* C9: a marker on, or on the line directly above, one type declaration
   excludes that declaration from extraction and leaves every other
   declaration of the same file extracted and compared. *)
C9_MarkerExcludesOneDeclaration ==
    Extracted =>
        \A n \in 1..Len(files) : \A i \in DeclLines(files[n]) :
            IF IsMarked(files[n], i)
            THEN ~IsExtracted(files[n], i)
            ELSE Len(extractFields(files[n].lines, i)) >= 2
                    => IsExtracted(files[n], i)

----------------------------------------------------------------------------
(* Text and regular expressions, as checks/type-exports.ts uses them.  A    *)
(* text is a tuple of characters; a regular expression is a tree, and        *)
(* MatchEnds computes where its matches that start in a set of positions end *)

Lower == {"a","b","c","d","e","f","g","h","i","j","k","l","m","n","o","p","q",
          "r","s","t","u","v","w","x","y","z"}
Upper == {"A","B","C","D","E","F","G","H","I","J","K","L","M","N","O","P","Q",
          "R","S","T","U","V","W","X","Y","Z"}
Digit == {"0","1","2","3","4","5","6","7","8","9"}
Space == {" ", "\t", "\n", "\r"}
WordChar  == Lower \cup Upper \cup Digit \cup {"_"}
\* the grave accent that delimits a template literal (U+0060), which a
\* string of this language cannot hold: one character of a text
Backtick == "U+0060"
\* [a-zA-Z_$] and [\w$]
IdentStart == Lower \cup Upper \cup {"_", "$"}
IdentChar  == WordChar \cup {"$"}

ReIn(cs)    == [k |-> "in", cs |-> cs]
ReNotIn(cs) == [k |-> "notin", cs |-> cs]
ReCh(c)     == ReIn({c})
ReSeq(ps)   == [k |-> "seq", ps |-> ps]
ReAlt(ps)   == [k |-> "alt", ps |-> ps]
ReStar(r)   == [k |-> "star", r |-> r]
RePlus(r)   == [k |-> "plus", r |-> r]
ReOpt(r)    == [k |-> "opt", r |-> r]
ReLit(t)    == ReSeq([i \in DOMAIN t |-> ReCh(t[i])])
ReAny       == ReNotIn({"\n", "\r"})
ReBol       == [k |-> "bol"]
ReEol       == [k |-> "eol"]
ReBolM      == [k |-> "bolm"]
ReEolM      == [k |-> "eolm"]
ReWordB     == [k |-> "wordb"]
\* \s* and \s+
ReS0 == ReStar(ReIn(Space))
ReS1 == RePlus(ReIn(Space))

IsWordAt(s, i) == i >= 1 /\ i <= Len(s) /\ s[i] \in WordChar

RECURSIVE MatchEnds(_, _, _)
RECURSIVE MatchEndsSeq(_, _, _, _)
RECURSIVE MatchEndsStar(_, _, _, _)
MatchEndsSeq(ps, n, s, from) ==
    IF n > Len(ps) \/ from = {} THEN from
    ELSE MatchEndsSeq(ps, n + 1, s, MatchEnds(ps[n], s, from))
MatchEndsStar(r, s, done, new) ==
    IF new = {} THEN done
    ELSE MatchEndsStar(r, s, done \cup new,
                       MatchEnds(r, s, new) \ (done \cup new))
MatchEnds(r, s, from) ==
    CASE r.k = "in"    -> {i + 1 : i \in {j \in from : j <= Len(s) /\ s[j] \in r.cs}}
      [] r.k = "notin" -> {i + 1 : i \in {j \in from : j <= Len(s) /\ s[j] \notin r.cs}}
      [] r.k = "seq"   -> MatchEndsSeq(r.ps, 1, s, from)
      [] r.k = "alt"   -> UNION {MatchEnds(r.ps[n], s, from) : n \in DOMAIN r.ps}
      [] r.k = "star"  -> MatchEndsStar(r.r, s, {}, from)
      [] r.k = "plus"  -> MatchEndsStar(r.r, s, {}, MatchEnds(r.r, s, from))
      [] r.k = "opt"   -> from \cup MatchEnds(r.r, s, from)
      [] r.k = "bol"   -> {i \in from : i = 1}
      [] r.k = "eol"   -> {i \in from : i = Len(s) + 1}
      [] r.k = "bolm"  -> {i \in from : i = 1 \/ s[i - 1] = "\n"}
      [] r.k = "eolm"  -> {i \in from : i = Len(s) + 1 \/ s[i] = "\n"}
      [] r.k = "wordb" -> {i \in from : IsWordAt(s, i - 1) # IsWordAt(s, i)}

\* RegExp.prototype.test
Test(r, s) == MatchEnds(r, s, 1..(Len(s) + 1)) # {}

\* String.prototype.trim, trimEnd, startsWith, indexOf, lastIndexOf
RECURSIVE TrimStart(_)
TrimStart(s) ==
    IF s # <<>> /\ Head(s) \in Space THEN TrimStart(Tail(s)) ELSE s
RECURSIVE TrimEnd(_)
TrimEnd(s) ==
    IF s # <<>> /\ s[Len(s)] \in Space THEN TrimEnd(SubSeq(s, 1, Len(s) - 1))
    ELSE s
Trim(s) == TrimEnd(TrimStart(s))
StartsWith(text, prefix) ==
    /\ Len(prefix) <= Len(text)
    /\ SubSeq(text, 1, Len(prefix)) = prefix
\* 0 when the character does not occur (positions count from 1)
PositionsOf(s, c) == {i \in 1..Len(s) : s[i] = c}
IndexOf(s, c) ==
    IF PositionsOf(s, c) = {} THEN 0
    ELSE CHOOSE i \in PositionsOf(s, c) : \A j \in PositionsOf(s, c) : i <= j
LastIndexOf(s, c) ==
    IF PositionsOf(s, c) = {} THEN 0
    ELSE CHOOSE i \in PositionsOf(s, c) : \A j \in PositionsOf(s, c) : j <= i
\* Array.prototype.join('\n')
RECURSIVE JoinLines(_)
JoinLines(ls) ==
    IF ls = <<>> THEN <<>>
    ELSE IF Len(ls) = 1 THEN ls[1]
    ELSE ls[1] \o <<"\n">> \o JoinLines(Tail(ls))
\* Array.prototype.slice(from, to) with 0-based from and exclusive to
Slice(ls, from, to) ==
    SubSeq(ls, from + 1, IF to < Len(ls) THEN to ELSE Len(ls))
Min(a, b) == IF a < b THEN a ELSE b

----------------------------------------------------------------------------
(* checks/type-exports.ts: the patterns *)

\* export\s+const\s+\w+\s*  (the parts every const pattern starts with)
ExportConstName ==
    <<ReLit(<<"e","x","p","o","r","t">>), ReS1, ReLit(<<"c","o","n","s","t">>), ReS1, RePlus(ReIn(WordChar)), ReS0>>
\* export\s+const\s+\w+\s*=\s*
ExportConstEq == ExportConstName \o <<ReCh("="), ReS0>>
\* export\s+const\s+\w+\s*[:=]
ExportConstColonEq == ExportConstName \o <<ReIn({":", "="})>>
\* ^\s*export\s+
LineExport == <<ReBol, ReS0, ReLit(<<"e","x","p","o","r","t">>), ReS1>>

TYPE_EXPORT_PATTERNS ==
    << ReSeq(LineExport \o <<ReLit(<<"t","y","p","e">>), ReS1, RePlus(ReIn(WordChar))>>),
       ReSeq(LineExport \o <<ReLit(<<"i","n","t","e","r","f","a","c","e">>), ReS1, RePlus(ReIn(WordChar))>>),
       ReSeq(LineExport \o <<ReLit(<<"e","n","u","m">>), ReS1, RePlus(ReIn(WordChar))>>) >>

TYPE_RE_EXPORT_PATTERN ==
    ReSeq(LineExport \o <<ReLit(<<"t","y","p","e">>), ReS1, ReCh("*"), ReS1, ReLit(<<"f","r","o","m">>)>>)

EXPORT_TYPE_BRACES_PATTERN ==
    ReSeq(LineExport \o <<ReCh("{"), ReS0, ReLit(<<"t","y","p","e">>), ReS1>>)
EXPORT_BRACES_TYPE_PATTERN ==
    ReSeq(LineExport \o <<ReLit(<<"t","y","p","e">>), ReS1, ReCh("{")>>)

CONST_EXPORT_PATTERN ==
    ReSeq(LineExport \o <<ReLit(<<"c","o","n","s","t">>), ReS1, RePlus(ReIn(WordChar)), ReS0,
                          ReIn({":", "="})>>)

\* Type\.\w+\s*\(  and  z\.\w+\s*\(
TypeBoxCall ==
    <<ReLit(<<"T","y","p","e">>), ReCh("."), RePlus(ReIn(WordChar)), ReS0, ReCh("(")>>
ZodCall ==
    <<ReCh("z"), ReCh("."), RePlus(ReIn(WordChar)), ReS0, ReCh("(")>>

SCHEMA_LIBRARY_PATTERNS ==
    << ReSeq(<<ReCh("="), ReS0>> \o TypeBoxCall),
       ReSeq(<<ReCh("="), ReS0>> \o ZodCall) >>

SCHEMA_INITIALIZER_PATTERNS ==
    << ReSeq(<<ReBol, ReS0>> \o TypeBoxCall),
       ReSeq(<<ReBol, ReS0>> \o ZodCall) >>

\* patterns.some((pattern) => pattern.test(line))
SomeTest(patterns, line) == \E n \in DOMAIN patterns : Test(patterns[n], line)

----------------------------------------------------------------------------
(* checks/type-exports.ts: the classifier of const exports *)

\* (\([^)]*\)|[^=]+)\s*=>
ArrowTail ==
    <<ReAlt(<<ReSeq(<<ReCh("("), ReStar(ReNotIn({")"})), ReCh(")")>>),
              RePlus(ReNotIn({"="}))>>),
      ReS0, ReLit(<<"=",">">>)>>

\* the lookahead loop of isConstExportFunctional, from nextLines[i - 1]
RECURSIVE arrowInNextLines(_, _)
arrowInNextLines(nextLines, i) ==
    IF i > Min(10, Len(nextLines)) THEN FALSE
    ELSE IF Includes(nextLines[i], <<"=",">">>) THEN TRUE
    ELSE IF Includes(nextLines[i], <<";">>) \/ Includes(nextLines[i], <<"e","x","p","o","r","t">>)
         THEN FALSE
    ELSE arrowInNextLines(nextLines, i + 1)

isConstExportFunctional(line, nextLines) ==
    \/ Test(ReSeq(ExportConstEq \o ArrowTail), line)
    \/ Test(ReSeq(ExportConstEq \o <<ReLit(<<"f","u","n","c","t","i","o","n">>)>>), line)
    \/ Test(ReSeq(ExportConstEq \o <<ReLit(<<"c","l","a","s","s">>)>>), line)
    \/ Test(ReSeq(ExportConstEq \o <<ReLit(<<"a","s","y","n","c">>), ReS1>> \o ArrowTail), line)
    \/ /\ Test(ReSeq(ExportConstEq \o <<ReCh("(")>>), line)
       /\ arrowInNextLines(nextLines, 1)

\* [a-zA-Z_$][\w$]*
Identifier == <<ReIn(IdentStart), ReStar(ReIn(IdentChar))>>

isObjectWithIdentifierOnlyValues(content) ==
    LET startIdx == IndexOf(content, "{")
        endIdx   == LastIndexOf(content, "}")
        objectContent == Trim(SubSeq(content, startIdx + 1, endIdx - 1))
        hasShorthandProperty ==
            Test(ReSeq(<<ReAlt(<<ReBolM, ReIn({",", "{"})>>), ReS0>>
                       \o Identifier
                       \o <<ReS0, ReAlt(<<ReIn({",", "}"}), ReEolM>>)>>),
                 objectContent)
        hasExplicitIdentifierValue ==
            Test(ReSeq(<<ReCh(":"), ReS0>> \o Identifier
                       \o <<ReS0, ReIn({",", "}"})>>),
                 objectContent)
    IN  IF startIdx = 0 \/ endIdx = 0 \/ endIdx <= startIdx THEN FALSE
        ELSE IF objectContent = <<>> THEN FALSE
        ELSE IF Test(ReIn({"'", "\""}), objectContent) THEN FALSE
        ELSE IF Test(ReSeq(<<ReCh(":"), ReS0, ReOpt(ReCh("-")), ReIn(Digit)>>),
                     objectContent) THEN FALSE
        ELSE IF Test(ReSeq(<<ReCh(":"), ReS0,
                             ReAlt(<<ReLit(<<"t","r","u","e">>), ReLit(<<"f","a","l","s","e">>), ReLit(<<"n","u","l","l">>)>>),
                             ReWordB>>),
                     objectContent) THEN FALSE
        ELSE IF Test(ReSeq(<<ReCh(":"), ReS0, ReCh("[")>>), objectContent) THEN FALSE
        ELSE IF Test(ReSeq(<<ReCh(":"), ReS0, ReCh("{")>>), objectContent) THEN FALSE
        ELSE hasShorthandProperty \/ hasExplicitIdentifierValue

\* [a-zA-Z_$][\w$]*(?:\.[a-zA-Z_$][\w$]*)*
QualifiedName ==
    Identifier \o <<ReStar(ReSeq(<<ReCh(".")>> \o Identifier))>>

\* funcCallMatch: export\s+const\s+\w+\s*[:=]\s*(QualifiedName)\s*\(
FuncCallPrefix == ReSeq(ExportConstColonEq \o <<ReS0>>)
FuncCallTail   == ReSeq(<<ReS0, ReCh("(")>>)
FuncCallPattern ==
    ReSeq(ExportConstColonEq \o <<ReS0>> \o QualifiedName \o <<ReS0, ReCh("(")>>)
\* the spans <<p, q>> that group 1 can take in a match that starts at `start`
FuncCallGroups(line, start) ==
    UNION { { <<p, q>> : q \in {e \in MatchEnds(ReSeq(QualifiedName), line, {p}) :
                                    MatchEnds(FuncCallTail, line, {e}) # {}} } :
            p \in MatchEnds(FuncCallPrefix, line, {start}) }
FuncCallStarts(line) ==
    {i \in 1..(Len(line) + 1) : MatchEnds(FuncCallPattern, line, {i}) # {}}
\* funcCallMatch[1]: exec takes the leftmost start; the name ends where the
\* whitespace or the parenthesis begins, so the span is unique from a start
FuncCallIdentifier(line) ==
    LET start == CHOOSE i \in FuncCallStarts(line) :
                     \A j \in FuncCallStarts(line) : i <= j
        pq    == CHOOSE g \in FuncCallGroups(line, start) : TRUE
    IN  SubSeq(line, pq[1], pq[2] - 1)

literalConstructors ==
    {<<"S","t","r","i","n","g">>, <<"N","u","m","b","e","r">>,
     <<"B","o","o","l","e","a","n">>, <<"A","r","r","a","y">>,
     <<"O","b","j","e","c","t">>}

\* the lookahead loop of the call initializer, from nextLines[i - 1]
RECURSIVE hasArrow(_, _)
hasArrow(nextLines, i) ==
    IF i > Min(5, Len(nextLines)) THEN FALSE
    ELSE IF Includes(nextLines[i], <<"=",">">>) THEN TRUE
    ELSE IF \/ Includes(nextLines[i], <<";">>)
            \/ Test(ReSeq(<<ReBol, ReS0, ReLit(<<"e","x","p","o","r","t">>), ReIn(Space)>>),
                    nextLines[i])
         THEN FALSE
    ELSE hasArrow(nextLines, i + 1)

\* the lookahead loop of the deferred initializer, from nextLines[i - 1]
RECURSIVE valueOnNextLine(_, _)
valueOnNextLine(nextLines, i) ==
    IF i > Min(3, Len(nextLines)) THEN FALSE
    ELSE LET nextLine == Trim(nextLines[i])
         IN  IF nextLine = <<>> THEN valueOnNextLine(nextLines, i + 1)
             ELSE \/ Test(ReSeq(<<ReBol, ReLit(<<"n","e","w">>), ReS1, ReIn(Upper)>>), nextLine)
                  \/ /\ Test(ReSeq(<<ReBol>> \o QualifiedName \o <<ReS0, ReCh("(")>>),
                             nextLine)
                     /\ ~Test(ReSeq(<<ReBol>> \o TypeBoxCall), nextLine)
                     /\ ~Test(ReSeq(<<ReBol>> \o ZodCall), nextLine)

\* the tests on the gathered text of an object or array literal
hasRuntimeValues(content, objectLiteralMatch) ==
    \/ /\ Test(ReSeq(Identifier \o <<ReCh(".")>> \o Identifier), content)
       /\ ~Test(ReSeq(TypeBoxCall), content)
       /\ ~Test(ReSeq(ZodCall), content)
       /\ Test(ReSeq(<<ReCh(":"), ReS0>> \o Identifier
                     \o <<RePlus(ReSeq(<<ReCh(".")>> \o Identifier)),
                          ReIn(Space \cup {",", "}", "]"})>>),
               content)
    \/ Test(ReSeq(<<ReCh(":"), ReS0, ReIn(Upper),
                    RePlus(ReIn(Upper \cup Digit \cup {"_"})),
                    ReIn(Space \cup {",", "}", "]"})>>),
            content)
    \/ /\ Test(ReSeq(<<ReCh(":"), ReS0>> \o Identifier \o <<ReS0, ReCh("(")>>),
               content)
       /\ ~Test(ReSeq(<<ReCh(":"), ReS0>> \o TypeBoxCall), content)
       /\ ~Test(ReSeq(<<ReCh(":"), ReS0>> \o ZodCall), content)
    \/ Test(ReSeq(<<ReCh(Backtick), ReStar(ReNotIn({Backtick})), ReCh("$"),
                    ReCh("{")>>),
            content)
    \/ Test(ReLit(<<".",".",".">>), content)
    \/ /\ objectLiteralMatch
       /\ isObjectWithIdentifierOnlyValues(content)

isRuntimeConstExport(line, nextLines) ==
    LET objectLiteralMatch ==
            Test(ReSeq(ExportConstColonEq \o <<ReS0, ReCh("{")>>), line)
        arrayLiteralMatch ==
            Test(ReSeq(ExportConstColonEq \o <<ReS0, ReCh("[")>>), line)
        allLines == <<line>> \o Slice(nextLines, 0, 20)
        content  == JoinLines(allLines)
    IN  \/ Test(ReSeq(ExportConstColonEq
                      \o <<ReStar(ReAny), ReWordB, ReLit(<<"n","e","w">>), ReS1,
                           ReIn(Upper)>>),
                line)
        \/ /\ FuncCallStarts(line) # {}
           /\ FuncCallIdentifier(line) \notin literalConstructors
           /\ ~Includes(line, <<"=",">">>)
           /\ ~hasArrow(nextLines, 1)
        \/ /\ objectLiteralMatch \/ arrayLiteralMatch
           /\ hasRuntimeValues(content, objectLiteralMatch)
        \/ /\ Test(ReSeq(ExportConstColonEq \o <<ReS0, ReEol>>), TrimEnd(line))
           /\ valueOnNextLine(nextLines, 1)

\* the lookahead loop of isSchemaConstExport, from nextLines[i - 1]
RECURSIVE schemaInNextLines(_, _)
schemaInNextLines(nextLines, i) ==
    IF i > Min(5, Len(nextLines)) THEN FALSE
    ELSE IF SomeTest(SCHEMA_LIBRARY_PATTERNS, nextLines[i]) THEN TRUE
    ELSE IF SomeTest(SCHEMA_INITIALIZER_PATTERNS, nextLines[i]) THEN TRUE
    ELSE IF Includes(nextLines[i], <<";">>) /\ ~Includes(nextLines[i], <<"{">>)
         THEN FALSE
    ELSE IF Test(ReSeq(<<ReBol, ReS0, ReLit(<<"e","x","p","o","r","t">>), ReIn(Space)>>),
                 nextLines[i])
         THEN FALSE
    ELSE schemaInNextLines(nextLines, i + 1)

isSchemaConstExport(line, nextLines) ==
    \/ SomeTest(SCHEMA_LIBRARY_PATTERNS, line)
    \/ /\ Test(ReSeq(ExportConstColonEq), line)
       /\ schemaInNextLines(nextLines, 1)

hasTypeExportInBraces(line) ==
    Test(EXPORT_TYPE_BRACES_PATTERN, line) \/ Test(EXPORT_BRACES_TYPE_PATTERN, line)

isTypeReExport_never(line) == FALSE

isTypeReExport(line) == Test(TYPE_RE_EXPORT_PATTERN, line)

isCommentOrWhitespace(line) ==
    LET trimmed == Trim(line)
    IN  \/ trimmed = <<>>
        \/ StartsWith(trimmed, <<"/","/">>)
        \/ StartsWith(trimmed, <<"/","*">>)
        \/ StartsWith(trimmed, <<"*">>)
        \/ EndsWith(trimmed, <<"*","/">>)
        \/ Test(ReSeq(<<ReBol, ReStar(ReIn(Space \cup {"*"})), ReEol>>), trimmed)

IgnoreFlag ==
    <<"/","/"," ","@","t","y","p","e","-","e","x","p","o","r","t","-","a",
      "l","l","o","w","e","d">>

hasIgnoreFlag_lineOnly(line, prevLine) ==
    Includes(line, IgnoreFlag)

hasIgnoreFlag(line, prevLine) ==
    Includes(line, IgnoreFlag) \/ Includes(prevLine, IgnoreFlag)

\* path.normalize(filePath).includes(`${path.sep}types${path.sep}`)
isInTypesDir(path) == Includes(PathText(path), <<"/","t","y","p","e","s","/">>)

ReExportViolation(filePath, line, index) ==
    [file |-> filePath, line |-> index, type |-> "Type Re-Export Anti-Pattern",
     severity |-> "HIGH", content |-> Trim(line),
     message |-> "export type * from ... pattern is discouraged"]

TypeExportViolation(filePath, line, index, message) ==
    [file |-> filePath, line |-> index,
     type |-> "Type Export from Non-Types File",
     severity |-> "HIGH", content |-> Trim(line), message |-> message]

ConstExportViolation(filePath, line, index) ==
    [file |-> filePath, line |-> index,
     type |-> "Non-Functional Constant Export",
     severity |-> "MEDIUM", content |-> Trim(line),
     message |-> "Non-functional constants (primitives, objects, arrays) should be exported from types.ts files"]

\* the callback of lines.forEach from the re-export test on: what it does
\* with a line that is no comment and carries no ignore flag
scanUnflaggedLine(filePath, lines, index, found) ==
    LET line == lines[index]
        isValidTypesFile == isTypesFile(filePath)
        nextLines == SubSeq(lines, index + 1, Len(lines))
    IN  IF isTypeReExport(line)
             THEN Append(found, ReExportViolation(filePath, line, index))
        ELSE IF isInTypesDir(filePath) THEN found
        ELSE IF SomeTest(TYPE_EXPORT_PATTERNS, line) /\ ~isValidTypesFile
             THEN Append(found, TypeExportViolation(filePath, line, index,
                     "Types/interfaces/enums should only be exported from types.ts or types/*.ts files"))
        ELSE IF hasTypeExportInBraces(line) /\ ~isValidTypesFile
             THEN Append(found, TypeExportViolation(filePath, line, index,
                     "Type exports should only be from types.ts or types/*.ts files"))
        ELSE IF Test(CONST_EXPORT_PATTERN, line) /\ ~isValidTypesFile
             THEN IF isConstExportFunctional(line, nextLines) THEN found
                  ELSE IF isSchemaConstExport(line, nextLines) THEN found
                  ELSE IF isRuntimeConstExport(line, nextLines) THEN found
                  ELSE Append(found, ConstExportViolation(filePath, line, index))
        ELSE found

\* one call of the callback of lines.forEach: the violations array after it.
\* index counts lines from 1, as Violation.line does
scanLine(filePath, lines, index, found) ==
    LET line == lines[index]
        prevLine == IF index > 1 THEN lines[index - 1] ELSE <<>>
    IN  IF isCommentOrWhitespace(line) THEN found
        ELSE IF hasIgnoreFlag(line, prevLine) THEN found
        ELSE scanUnflaggedLine(filePath, lines, index, found)

----------------------------------------------------------------------------
(* Source files for scanFileForTypeExports: sequences of statements *)

\* export const Config = { apiKey: 'k', timeout: 5000 };
ConfigLine ==
    <<"e","x","p","o","r","t"," ","c","o","n","s","t"," ","C","o","n","f",
      "i","g"," ","="," ","{"," ","a","p","i","K","e","y",":"," ","'","k",
      "'",","," ","t","i","m","e","o","u","t",":"," ","5","0","0","0"," ",
      "}",";">>
\* export const items = ['one', 'two', 'three'];
ItemsLine ==
    <<"e","x","p","o","r","t"," ","c","o","n","s","t"," ","i","t","e","m",
      "s"," ","="," ","[","'","o","n","e","'",","," ","'","t","w","o","'",
      ","," ","'","t","h","r","e","e","'","]",";">>
\* export const config = {
ConfigOpenLine ==
    <<"e","x","p","o","r","t"," ","c","o","n","s","t"," ","c","o","n","f",
      "i","g"," ","="," ","{">>
\*   apiKey: 'test',
ApiKeyLine ==
    <<" "," ","a","p","i","K","e","y",":"," ","'","t","e","s","t","'",",">>
\*   timeout: 5000,
TimeoutLine ==
    <<" "," ","t","i","m","e","o","u","t",":"," ","5","0","0","0",",">>
\*   enabled: true,
EnabledLine ==
    <<" "," ","e","n","a","b","l","e","d",":"," ","t","r","u","e",",">>
\* };
ConfigCloseLine ==
    <<"}",";">>
\* export const UserSchema = z.object({ id: z.string() });
SchemaLine ==
    <<"e","x","p","o","r","t"," ","c","o","n","s","t"," ","U","s","e","r",
      "S","c","h","e","m","a"," ","="," ","z",".","o","b","j","e","c","t",
      "(","{"," ","i","d",":"," ","z",".","s","t","r","i","n","g","(",")",
      " ","}",")",";">>
\* export const merged = { ...base };
SpreadLine ==
    <<"e","x","p","o","r","t"," ","c","o","n","s","t"," ","m","e","r","g",
      "e","d"," ","="," ","{"," ",".",".",".","b","a","s","e"," ","}",";">>
\* export const handler = () => 1;
ArrowLine ==
    <<"e","x","p","o","r","t"," ","c","o","n","s","t"," ","h","a","n","d",
      "l","e","r"," ","="," ","(",")"," ","=",">"," ","1",";">>
\* export const client = createClient();
CallLine ==
    <<"e","x","p","o","r","t"," ","c","o","n","s","t"," ","c","l","i","e",
      "n","t"," ","="," ","c","r","e","a","t","e","C","l","i","e","n","t",
      "(",")",";">>
\* // @type-export-allowed
AllowedLine ==
    <<"/","/"," ","@","t","y","p","e","-","e","x","p","o","r","t","-","a",
      "l","l","o","w","e","d">>

\* export const service = new MyService();
NewLine ==
    <<"e","x","p","o","r","t"," ","c","o","n","s","t"," ","s","e","r","v",
      "i","c","e"," ","="," ","n","e","w"," ","M","y","S","e","r","v","i",
      "c","e","(",")",";">>
\* export const client = http.create({ baseURL: 'x' });
MethodCallLine ==
    <<"e","x","p","o","r","t"," ","c","o","n","s","t"," ","c","l","i","e",
      "n","t"," ","="," ","h","t","t","p",".","c","r","e","a","t","e","(",
      "{"," ","b","a","s","e","U","R","L",":"," ","'","x","'"," ","}",")",
      ";">>
\* export const client: Client = createClient();
AnnotatedCallLine ==
    <<"e","x","p","o","r","t"," ","c","o","n","s","t"," ","c","l","i","e",
      "n","t",":"," ","C","l","i","e","n","t"," ","="," ","c","r","e","a",
      "t","e","C","l","i","e","n","t","(",")",";">>

\* export const complexFunction = (
ComplexOpenLine ==
    <<"e","x","p","o","r","t"," ","c","o","n","s","t"," ","c","o","m","p",
      "l","e","x","F","u","n","c","t","i","o","n"," ","="," ","(">>
\*   arg1: string,
Arg1Line ==
    <<" "," ","a","r","g","1",":"," ","s","t","r","i","n","g",",">>
\*   arg2: number
Arg2Line ==
    <<" "," ","a","r","g","2",":"," ","n","u","m","b","e","r">>
\* ) => {
ArrowBodyLine ==
    <<")"," ","=",">"," ","{">>
\*   return arg1 + arg2;
ReturnSumLine ==
    <<" "," ","r","e","t","u","r","n"," ","a","r","g","1"," ","+"," ","a",
      "r","g","2",";">>
\* export const processAsync = async (
AsyncOpenLine ==
    <<"e","x","p","o","r","t"," ","c","o","n","s","t"," ","p","r","o","c",
      "e","s","s","A","s","y","n","c"," ","="," ","a","s","y","n","c"," ",
      "(">>
\*   data: string
DataArgLine ==
    <<" "," ","d","a","t","a",":"," ","s","t","r","i","n","g">>
\* export const myFunc = function(a: number): number {
MyFuncLine ==
    <<"e","x","p","o","r","t"," ","c","o","n","s","t"," ","m","y","F","u",
      "n","c"," ","="," ","f","u","n","c","t","i","o","n","(","a",":"," ",
      "n","u","m","b","e","r",")",":"," ","n","u","m","b","e","r"," ","{">>
\*   return a * 2;
ReturnTwiceLine ==
    <<" "," ","r","e","t","u","r","n"," ","a"," ","*"," ","2",";">>

\* export const _testExports = {
TestExportsOpenLine ==
    <<"e","x","p","o","r","t"," ","c","o","n","s","t"," ","_","t","e","s",
      "t","E","x","p","o","r","t","s"," ","="," ","{">>
\*   internalParse,
InternalParseLine ==
    <<" "," ","i","n","t","e","r","n","a","l","P","a","r","s","e",",">>
\*   internalValidate,
InternalValidateLine ==
    <<" "," ","i","n","t","e","r","n","a","l","V","a","l","i","d","a","t",
      "e",",">>
\* export const _config = {
MixedOpenLine ==
    <<"e","x","p","o","r","t"," ","c","o","n","s","t"," ","_","c","o","n",
      "f","i","g"," ","="," ","{">>
\*   getDefaultTimeout,
GetDefaultTimeoutLine ==
    <<" "," ","g","e","t","D","e","f","a","u","l","t","T","i","m","e","o",
      "u","t",",">>
\*   maxRetries: 3,
MaxRetriesLine ==
    <<" "," ","m","a","x","R","e","t","r","i","e","s",":"," ","3",",">>

\* export type User = { name: string; };
TypeAliasLine ==
    <<"e","x","p","o","r","t"," ","t","y","p","e"," ","U","s","e","r"," ",
      "="," ","{"," ","n","a","m","e",":"," ","s","t","r","i","n","g",";",
      " ","}",";">>
\* export type User = { name: string; }; // @type-export-allowed
FlaggedTypeAliasLine ==
    <<"e","x","p","o","r","t"," ","t","y","p","e"," ","U","s","e","r"," ",
      "="," ","{"," ","n","a","m","e",":"," ","s","t","r","i","n","g",";",
      " ","}",";"," ","/","/"," ","@","t","y","p","e","-","e","x","p","o",
      "r","t","-","a","l","l","o","w","e","d">>
\* // This one should be detected (no ignore flag)
DetectedCommentLine ==
    <<"/","/"," ","T","h","i","s"," ","o","n","e"," ","s","h","o","u","l",
      "d"," ","b","e"," ","d","e","t","e","c","t","e","d"," ","(","n","o",
      " ","i","g","n","o","r","e"," ","f","l","a","g",")">>
\* export interface Config {
InterfaceOpenLine ==
    <<"e","x","p","o","r","t"," ","i","n","t","e","r","f","a","c","e"," ",
      "C","o","n","f","i","g"," ","{">>
\*   apiKey: string;
ApiKeyFieldLine ==
    <<" "," ","a","p","i","K","e","y",":"," ","s","t","r","i","n","g",";">>
\* }
BraceCloseLine ==
    <<"}">>
\* export type { User } from './user';
TypeBracesLine ==
    <<"e","x","p","o","r","t"," ","t","y","p","e"," ","{"," ","U","s","e",
      "r"," ","}"," ","f","r","o","m"," ","'",".","/","u","s","e","r","'",
      ";">>
\* export type * from './user';
ReExportLine ==
    <<"e","x","p","o","r","t"," ","t","y","p","e"," ","*"," ","f","r","o",
      "m"," ","'",".","/","u","s","e","r","'",";">>

\* export class MyService {}
ClassLine ==
    <<"e","x","p","o","r","t"," ","c","l","a","s","s"," ","M","y","S","e",
      "r","v","i","c","e"," ","{","}">>
\* export function createConfig(timeout: number): Config {
CreateConfigLine ==
    <<"e","x","p","o","r","t"," ","f","u","n","c","t","i","o","n"," ","c",
      "r","e","a","t","e","C","o","n","f","i","g","(","t","i","m","e","o",
      "u","t",":"," ","n","u","m","b","e","r",")",":"," ","C","o","n","f",
      "i","g"," ","{">>
\*   return { timeout };
ReturnTimeoutLine ==
    <<" "," ","r","e","t","u","r","n"," ","{"," ","t","i","m","e","o","u",
      "t"," ","}",";">>

\* export enum Status { Active, Inactive }
EnumLine ==
    <<"e","x","p","o","r","t"," ","e","n","u","m"," ","S","t","a","t","u",
      "s"," ","{"," ","A","c","t","i","v","e",","," ","I","n","a","c","t",
      "i","v","e"," ","}">>

\* the statements a file is made of, each a list of lines
LiteralStatements ==
    { <<ConfigLine>>, <<ItemsLine>>,
      <<ConfigOpenLine, ApiKeyLine, TimeoutLine, EnabledLine, ConfigCloseLine>> }
\* const exports initialized by a new expression or by a call
ConstructedStatements ==
    { <<CallLine>>, <<NewLine>>, <<MethodCallLine>>, <<AnnotatedCallLine>> }
\* const exports initialized by an arrow function, on one line or over
\* several, by an async arrow function or by a function expression
FunctionalStatements ==
    { <<ArrowLine>>,
      <<ComplexOpenLine, Arg1Line, Arg2Line, ArrowBodyLine, ReturnSumLine,
        ConfigCloseLine>>,
      <<AsyncOpenLine, DataArgLine, ArrowBodyLine, ReturnSumLine, ConfigCloseLine>>,
      <<MyFuncLine, ReturnTwiceLine, ConfigCloseLine>> }
\* type exports: an alias, an alias with the ignore flag on its line, an
\* enum, an interface below a comment, a type export in braces, a type
\* re-export
TypeStatements ==
    { <<TypeAliasLine>>, <<FlaggedTypeAliasLine>>, <<EnumLine>>,
      <<DetectedCommentLine, InterfaceOpenLine, ApiKeyFieldLine, BraceCloseLine>>,
      <<TypeBracesLine>>, <<ReExportLine>> }
\* an exported class and an exported function
DeclarationStatements ==
    { <<ClassLine>>, <<CreateConfigLine, ReturnTimeoutLine, BraceCloseLine>> }
\* an object literal of identifiers only, and one of an identifier and a
\* scalar literal
ReferenceStatement ==
    <<TestExportsOpenLine, InternalParseLine, InternalValidateLine, ConfigCloseLine>>
MixedStatement ==
    <<MixedOpenLine, GetDefaultTimeoutLine, MaxRetriesLine, ConfigCloseLine>>
ExportStatements ==
    LiteralStatements \cup ConstructedStatements \cup FunctionalStatements \cup
    { ReferenceStatement, MixedStatement,
      <<SchemaLine>>, <<SpreadLine>>, <<AllowedLine>> }
    \cup TypeStatements \cup DeclarationStatements

MaxStatements == 2

RECURSIVE Flatten(_)
Flatten(stmts) ==
    IF stmts = <<>> THEN <<>> ELSE Head(stmts) \o Flatten(Tail(stmts))

ExportFiles ==
    { Flatten(stmts) :
        stmts \in UNION { [1..n -> ExportStatements] : n \in 1..MaxStatements } }

----------------------------------------------------------------------------
(* scanFileForTypeExports *)

InitExport ==
    /\ scanPc = "scan"
    /\ scanPath \in {ProjectPaths[k] : k \in DOMAIN ProjectPaths}
    /\ scanLines \in ExportFiles
    /\ scanIndex = 1
    /\ scanViolations = <<>>
    /\ CmpOff
    /\ DupOff
    /\ tsconfigExists = TRUE
    /\ RunOff
    /\ GtfOff /\ FieldsOff

\* one iteration of lines.forEach
ScanLine ==
    /\ scanPc = "scan"
    /\ scanIndex <= Len(scanLines)
    /\ scanViolations' = scanLine(scanPath, scanLines, scanIndex, scanViolations)
    /\ scanIndex' = scanIndex + 1
    /\ UNCHANGED <<scanPc, scanPath, scanLines, cmpVars, dupVars,
                   tsconfigExists, runVars, gtfVars, fieldVars>>

\* `return violations`
ScanReturn ==
    /\ scanPc = "scan"
    /\ scanIndex > Len(scanLines)
    /\ scanPc' = "done"
    /\ UNCHANGED <<scanPath, scanLines, scanIndex, scanViolations, cmpVars,
                   dupVars, tsconfigExists, runVars, gtfVars, fieldVars>>

NextExport == ScanLine \/ ScanReturn

SpecExport == InitExport /\ [][NextExport]_vars

----------------------------------------------------------------------------
(* Claims about the export classifier *)

Scanned == scanPc = "done"

\* the first line of a const export whose initializer is a bare object or
\* array literal of scalar literals only
LiteralDeclarationLines == {Head(stmt) : stmt \in LiteralStatements}

\* the ignore directive is on the line or on its predecessor
Suppressed(i) ==
    \/ Includes(scanLines[i], IgnoreFlag)
    \/ i > 1 /\ Includes(scanLines[i - 1], IgnoreFlag)

ViolationsAt(i) ==
    {k \in 1..Len(scanViolations) : scanViolations[k].line = i}

\* C10: once a file that is not a type module is scanned, every unsuppressed
\* const export whose initializer is a bare object or array literal of scalar
\* literals only has exactly one violation on its declaration line, of
\* severity MEDIUM and type Non-Functional Constant Export
C10_LiteralConstantReported ==
    (Scanned /\ ~isTypesFile(scanPath)) =>
        \A i \in 1..Len(scanLines) :
            (scanLines[i] \in LiteralDeclarationLines /\ ~Suppressed(i)) =>
                /\ Cardinality(ViolationsAt(i)) = 1
                /\ \A k \in ViolationsAt(i) :
                      /\ scanViolations[k].severity = "MEDIUM"
                      /\ scanViolations[k].type = "Non-Functional Constant Export"

\* no arrow marker on the line or in the lookahead window that follows it
NoArrowFollows(i) ==
    \A k \in i..Min(i + 5, Len(scanLines)) : ~Includes(scanLines[k], <<"=",">">>)

\* C11: once a file is scanned, a const export initialized by new X(...) or
\* by a call fn(...) or obj.member(...) whose callee is no primitive wrapper,
\* with no arrow marker in the lookahead window, has no violation on its
\* line, with or without a type annotation
C11_ConstructedNotReported ==
    Scanned =>
        \A i \in 1..Len(scanLines) :
            (<<scanLines[i]>> \in ConstructedStatements /\ NoArrowFollows(i)) =>
                ViolationsAt(i) = {}

FunctionalDeclarationLines == {Head(stmt) : stmt \in FunctionalStatements}

ConstViolationsAt(i) ==
    {k \in ViolationsAt(i) :
        scanViolations[k].type = "Non-Functional Constant Export"}

\* C12: once a file is scanned, a const export whose declaration line, or a
\* line before the end of its statement, holds an arrow marker, a function
\* expression or an async variant has no Non-Functional Constant Export
\* violation, whatever its initializer starts with
C12_FunctionalNotReported ==
    Scanned =>
        \A i \in 1..Len(scanLines) :
            scanLines[i] \in FunctionalDeclarationLines =>
                ConstViolationsAt(i) = {}

\* C13: once a file that is not a type module is scanned, an exported object
\* literal whose entries are all identifiers has no violation on its line,
\* and an unsuppressed one that mixes an identifier with a scalar literal
\* (and holds no property access, upper-case value, call, template or spread)
\* has exactly one, a Non-Functional Constant Export
C13_ReferencesVersusMixed ==
    (Scanned /\ ~isTypesFile(scanPath)) =>
        \A i \in 1..Len(scanLines) :
            /\ scanLines[i] = Head(ReferenceStatement) => ViolationsAt(i) = {}
            /\ (scanLines[i] = Head(MixedStatement) /\ ~Suppressed(i)) =>
                  /\ Cardinality(ViolationsAt(i)) = 1
                  /\ ConstViolationsAt(i) = ViolationsAt(i)

\* the line is reported when the ignore flag is left out of account
OtherwiseViolating(i) ==
    /\ ~isCommentOrWhitespace(scanLines[i])
    /\ scanUnflaggedLine(scanPath, scanLines, i, <<>>) # <<>>

\* C14: once a file is scanned, a violation is reported at line L if and only
\* if the line is otherwise violating and neither line L nor line L-1 holds
\* the marker // @type-export-allowed as a substring
C14_SuppressedByLineOrPredecessor ==
    Scanned =>
        \A i \in 1..Len(scanLines) :
            ViolationsAt(i) # {} <=> (OtherwiseViolating(i) /\ ~Suppressed(i))

\* a scanned file where the marker suppresses the violation of its own line
\* and does not suppress the violation two lines below
C14_Witness ==
    /\ Scanned
    /\ \E i \in 3..Len(scanLines) :
          /\ ViolationsAt(i) # {}
          /\ Includes(scanLines[i - 2], IgnoreFlag)
          /\ OtherwiseViolating(i - 2)
          /\ ViolationsAt(i - 2) = {}

\* the paths of the model that lie in a types/ directory
TypesDirectoryPaths == {"src/types/user.ts"}

TypeModulePaths == {"src/types.ts", "src/types/user.ts"}

\* the first lines of the exported functions, classes and functional consts
FunctionalExportLines ==
    FunctionalDeclarationLines \cup {Head(stmt) : stmt \in DeclarationStatements}

----------------------------------------------------------------------------
(* lib/get-typescript-files.ts: globToRegex *)

\* the pieces of the regular expression for the pattern from position i on:
\* every character but * stands for itself (the ones special in a regular
\* expression are escaped first), **/ becomes (?:.*/|), any other ** becomes
\* .* and a single * becomes [^/]*.  The replacements go from left to right,
\* so a run of stars is read in pairs
RECURSIVE globPieces(_, _)
globPieces(pattern, i) ==
    IF i > Len(pattern) THEN <<>>
    ELSE IF pattern[i] = "*" /\ i < Len(pattern) /\ pattern[i + 1] = "*"
         THEN IF i + 2 <= Len(pattern) /\ pattern[i + 2] = "/"
              THEN <<ReAlt(<<ReSeq(<<ReStar(ReAny), ReCh("/")>>), ReSeq(<<>>)>>)>>
                   \o globPieces(pattern, i + 3)
              ELSE <<ReStar(ReAny)>> \o globPieces(pattern, i + 2)
    ELSE IF pattern[i] = "*"
         THEN <<ReStar(ReNotIn({"/"}))>> \o globPieces(pattern, i + 1)
    ELSE <<ReCh(pattern[i])>> \o globPieces(pattern, i + 1)

globToRegex_unanchored(pattern) == ReSeq(globPieces(pattern, 1))

globToRegex(pattern) == ReSeq(<<ReBol>> \o globPieces(pattern, 1) \o <<ReEol>>)

----------------------------------------------------------------------------
(* checks/type-exports.ts: runTypeExportsCheck, with noExit *)

\* path.relative(projectRoot, filePath): the model names a file by its path
\* below the project root
RelativePath(filePath) == PathText(filePath)

matchesAllowExportsPattern_firstOnly(filePath, patterns) ==
    IF Len(patterns) = 0 THEN FALSE
    ELSE Test(globToRegex(patterns[1]), RelativePath(filePath))

matchesAllowExportsPattern(filePath, patterns) ==
    IF Len(patterns) = 0 THEN FALSE
    ELSE \E n \in DOMAIN patterns :
            Test(globToRegex(patterns[n]), RelativePath(filePath))

\* lines.forEach of scanFileForTypeExports, from line index on
RECURSIVE scanLinesFrom(_, _, _, _)
scanLinesFrom(filePath, lines, index, found) ==
    IF index > Len(lines) THEN found
    ELSE scanLinesFrom(filePath, lines, index + 1,
                       scanLine(filePath, lines, index, found))

scanFileForTypeExports(file) == scanLinesFrom(file.path, file.lines, 1, <<>>)

\* Formatter.finish with blocking and no exitCode option
finishExitCode(found) == IF Len(found) > 0 THEN 1 ELSE 0

\* the allow-exports patterns of the model
\* src/models/**
ModelsTreePattern ==
    <<"s","r","c","/","m","o","d","e","l","s","/","*","*">>
\* **/types/**
TypesTreePattern ==
    <<"*","*","/","t","y","p","e","s","/","*","*">>
\* src/*.ts
SrcFilesPattern ==
    <<"s","r","c","/","*",".","t","s">>
\* **/user.ts
UserFilePattern ==
    <<"*","*","/","u","s","e","r",".","t","s">>
AllowPatterns == {ModelsTreePattern, TypesTreePattern, SrcFilesPattern, UserFilePattern}

MaxPatterns == 2
MaxRunFiles == 2

\* what the files of a run hold
RunContents ==
    { <<ConfigLine>>, <<TypeAliasLine, ReExportLine>>, <<AllowedLine, ItemsLine>>,
      <<ArrowLine>> }

\* getTypeScriptFiles returns the paths sorted, none twice
RunFileLists ==
    { fs \in UNION { [1..n -> [path : {ProjectPaths[k] : k \in DOMAIN ProjectPaths},
                               lines : RunContents]] : n \in 0..MaxRunFiles } :
        \A a, b \in DOMAIN fs :
            a < b => \E ka, kb \in DOMAIN ProjectPaths :
                        /\ ProjectPaths[ka] = fs[a].path
                        /\ ProjectPaths[kb] = fs[b].path
                        /\ ka < kb }

PatternLists == UNION { [1..n -> AllowPatterns] : n \in 0..MaxPatterns }

\* the process exited with this code and returned nothing
Exited(code) == [checkName |-> "exit", exitCode |-> code]

InitRun ==
    /\ runPc = "files"
    /\ tsconfigExists \in BOOLEAN
    /\ runFiles \in RunFileLists
    /\ ~tsconfigExists => runFiles = <<>>
    /\ runIndex = 1
    /\ runPatterns \in PatternLists
    /\ runViolations = <<>>
    /\ runResult = NoResult
    /\ CmpOff
    /\ DupOff
    /\ ExpOff
    /\ GtfOff /\ FieldsOff

\* getTypeScriptFiles returned null: console.error and process.exit(1)
RunNoConfig ==
    /\ runPc = "files"
    /\ ~tsconfigExists
    /\ runResult' = Exited(1)
    /\ runPc' = "exited"
    /\ UNCHANGED <<runFiles, runIndex, runPatterns, runViolations,
                   tsconfigExists, cmpVars, dupVars, expVars, gtfVars, fieldVars>>

\* getTypeScriptFiles returned a list
RunGotFiles ==
    /\ runPc = "files"
    /\ tsconfigExists = TRUE
    /\ runPc' = "scan"
    /\ UNCHANGED <<runFiles, runIndex, runPatterns, runViolations, runResult,
                   tsconfigExists, cmpVars, dupVars, expVars, gtfVars, fieldVars>>

\* one iteration of files.forEach
RunScanFile ==
    /\ runPc = "scan"
    /\ runIndex <= Len(runFiles)
    /\ runViolations' =
          IF matchesAllowExportsPattern(runFiles[runIndex].path, runPatterns)
          THEN runViolations
          ELSE runViolations \o scanFileForTypeExports(runFiles[runIndex])
    /\ runIndex' = runIndex + 1
    /\ UNCHANGED <<runPc, runFiles, runPatterns, runResult, tsconfigExists,
                   cmpVars, dupVars, expVars, gtfVars, fieldVars>>

\* formatter.finish and the CheckResult
RunFinish ==
    /\ runPc = "scan"
    /\ runIndex > Len(runFiles)
    /\ LET exitCode == finishExitCode(runViolations)
       IN  runResult' = [checkName |-> "type-exports",
                         passed |-> (exitCode = 0),
                         violationCount |-> Len(runViolations),
                         exitCode |-> exitCode,
                         violations |-> [k \in 1..Len(runViolations) |->
                                            [file |-> runViolations[k].file,
                                             line |-> runViolations[k].line,
                                             message |-> runViolations[k].message]]]
    /\ runPc' = "done"
    /\ UNCHANGED <<runFiles, runIndex, runPatterns, runViolations,
                   tsconfigExists, cmpVars, dupVars, expVars, gtfVars, fieldVars>>

NextRun == RunNoConfig \/ RunGotFiles \/ RunScanFile \/ RunFinish

SpecRun == InitRun /\ [][NextRun]_vars

----------------------------------------------------------------------------
(* Claims about runTypeExportsCheck *)

\* whether text s from position j on matches glob pattern p from position i
\* on: * is a run of characters other than the separator, ** is zero or more
\* whole path segments, any other character is itself
RECURSIVE GlobMatchFrom(_, _, _, _)
GlobMatchFrom(p, i, s, j) ==
    IF i > Len(p) THEN j > Len(s)
    ELSE IF p[i] = "*" /\ i < Len(p) /\ p[i + 1] = "*"
         THEN IF i + 2 <= Len(p) /\ p[i + 2] = "/"
              THEN \/ GlobMatchFrom(p, i + 3, s, j)
                   \/ \E k \in j..Len(s) :
                         s[k] = "/" /\ GlobMatchFrom(p, i + 3, s, k + 1)
              ELSE \E k \in j..(Len(s) + 1) : GlobMatchFrom(p, i + 2, s, k)
    ELSE IF p[i] = "*"
         THEN \E k \in j..(Len(s) + 1) :
                 /\ \A n \in j..(k - 1) : s[n] # "/"
                 /\ GlobMatchFrom(p, i + 1, s, k)
    ELSE j <= Len(s) /\ s[j] = p[i] /\ GlobMatchFrom(p, i + 1, s, j + 1)

\* the project-relative path matches one of the allow-exports patterns
Allowed(path) ==
    \E n \in DOMAIN runPatterns :
        GlobMatchFrom(runPatterns[n], 1, PathText(path), 1)

\* the violations of the files up to file n that match no pattern, each
\* scanned as it is when no pattern is given
RECURSIVE ViolationsOfOthers(_)
ViolationsOfOthers(n) ==
    IF n = 0 THEN <<>>
    ELSE ViolationsOfOthers(n - 1)
         \o (IF Allowed(runFiles[n].path) THEN <<>>
             ELSE scanFileForTypeExports(runFiles[n]))

\* C17: when the run is done, a file whose project-relative path matches an
\* allow-exports pattern has contributed no violation, and the violations
\* are those that the files matching no pattern have when no pattern is given
C17_AllowedFilesSkipped ==
    runPc = "done" =>
        /\ runViolations = ViolationsOfOthers(Len(runFiles))
        /\ \A k \in DOMAIN runViolations : ~Allowed(runViolations[k].file)
        /\ runResult.violationCount = Len(runViolations)

\* a finished run with two files that both have violations when scanned, one
\* of them allowed by a pattern and one not
C17_Witness ==
    /\ runPc = "done"
    /\ Len(runFiles) = 2
    /\ \E a, b \in DOMAIN runFiles :
          /\ Allowed(runFiles[a].path)
          /\ scanFileForTypeExports(runFiles[a]) # <<>>
          /\ ~Allowed(runFiles[b].path)
          /\ scanFileForTypeExports(runFiles[b]) # <<>>
    /\ runViolations # <<>>

----------------------------------------------------------------------------
(* Claims about a project without tsconfig.json *)

\* C18: when tsconfig.json does not exist, the duplicates check has scanned
\* no file and collected no violation when it is done, and its result is a
\* failure with a non-zero exit code
C18_MissingConfigIsFatal ==
    (pc = "done" /\ ~tsconfigExists) =>
        /\ fileIdx = 1
        /\ allTypes = <<>>
        /\ violations = <<>>
        /\ ~result.passed
        /\ result.exitCode # 0

----------------------------------------------------------------------------
(* lib/get-typescript-files.ts: getTypeScriptFiles *)

\* the characters of the paths, in ascending order of their code units
CodeUnits ==
    <<".", "/", "0", "1", "2", "3", "4", "5", "6", "7", "8", "9",
      "A", "B", "C", "D", "E", "F", "G", "H", "I", "J", "K", "L", "M",
      "N", "O", "P", "Q", "R", "S", "T", "U", "V", "W", "X", "Y", "Z", "_",
      "a", "b", "c", "d", "e", "f", "g", "h", "i", "j", "k", "l", "m",
      "n", "o", "p", "q", "r", "s", "t", "u", "v", "w", "x", "y", "z">>

CodeUnit(c) == CHOOSE k \in DOMAIN CodeUnits : CodeUnits[k] = c

\* the default comparison of Array.prototype.sort: strings by code units
RECURSIVE StringLess(_, _)
StringLess(a, b) ==
    IF Len(a) = 0 THEN Len(b) > 0
    ELSE IF Len(b) = 0 THEN FALSE
    ELSE IF a[1] = b[1] THEN StringLess(Tail(a), Tail(b))
    ELSE CodeUnit(a[1]) < CodeUnit(b[1])

\* Array.prototype.sort without a comparator
RECURSIVE InsertSorted(_, _)
InsertSorted(x, s) ==
    IF Len(s) = 0 THEN <<x>>
    ELSE IF StringLess(s[1], x) THEN <<s[1]>> \o InsertSorted(x, Tail(s))
    ELSE <<x>> \o s

Sort_asCollected(s) == s

RECURSIVE Sort(_)
Sort(s) == IF Len(s) = 0 THEN <<>> ELSE InsertSorted(s[1], Sort(Tail(s)))

Unique_keepAll(s) == s

\* Array.from(new Set(s)): the first occurrence of each string, in order
Unique(s) ==
    LET keep == { k \in DOMAIN s : \A j \in 1..(k - 1) : s[j] # s[k] }
        RECURSIVE From(_)
        From(k) == IF k > Len(s) THEN <<>>
                   ELSE IF k \in keep THEN <<s[k]>> \o From(k + 1)
                   ELSE From(k + 1)
    IN  From(1)

TsExtension ==
    <<".","t","s">>

DtsExtension ==
    <<".","d",".","t","s">>

NodeModulesName ==
    <<"n","o","d","e","_","m","o","d","u","l","e","s">>

DistName ==
    <<"d","i","s","t">>

BuildName ==
    <<"b","u","i","l","d">>

GitName ==
    <<".","g","i","t">>

CoverageName ==
    <<"c","o","v","e","r","a","g","e">>

NextName ==
    <<".","n","e","x","t">>

OutName ==
    <<"o","u","t">>

DEFAULT_EXCLUDES ==
    <<NodeModulesName, DistName, BuildName, GitName, CoverageName, NextName,
      OutName>>

\* `**/*`, the include pattern when tsconfig.json has none
EverythingPattern ==
    <<"*","*","/","*">>

\* the relative paths of the files under the project root
SrcAFile ==
    <<"s","r","c","/","a",".","t","s">>
SrcADeclFile ==
    <<"s","r","c","/","a",".","d",".","t","s">>
SrcGenBFile ==
    <<"s","r","c","/","g","e","n","/","b",".","t","s">>
LibCFile ==
    <<"l","i","b","/","c",".","t","s">>
LibGenDFile ==
    <<"l","i","b","/","g","e","n","/","d",".","t","s">>
DistEFile ==
    <<"d","i","s","t","/","e",".","t","s">>
ReadmeFile ==
    <<"R","E","A","D","M","E",".","m","d">>


\* the project root
ProjectRoot ==
    <<"/","p">>

\* path.join(dir, name)
pathJoin(dir, name) == dir \o <<"/">> \o name

\* path.relative(rootDir, fullPath) of a path under rootDir
pathRelative(rootDir, fullPath) == SubSeq(fullPath, Len(rootDir) + 2, Len(fullPath))

\* path.resolve(projectRoot, file) of a relative file: `./` segments go
RECURSIVE pathNormalize(_)
pathNormalize(file) ==
    IF StartsWith(file, <<".", "/">>) THEN pathNormalize(SubSeq(file, 3, Len(file)))
    ELSE file

pathResolve(root, file) == pathJoin(root, pathNormalize(file))

\* the directories of the project: every proper prefix of a file's relative
\* path that ends before a separator
Directories ==
    UNION { { SubSeq(f, 1, k - 1) : k \in PositionsOf(f, "/") } : f \in fsEntries }

\* the relative path of the directory that holds the entry
ParentOf(rel) ==
    IF PositionsOf(rel, "/") = {} THEN <<>>
    ELSE SubSeq(rel, 1, (CHOOSE k \in PositionsOf(rel, "/") :
                            \A j \in PositionsOf(rel, "/") : j <= k) - 1)

\* the entry's own name
NameOf(rel) == SubSeq(rel, Len(ParentOf(rel)) + (IF ParentOf(rel) = <<>> THEN 1 ELSE 2), Len(rel))

IsUnderRoot(fullPath) == StartsWith(fullPath, ProjectRoot \o <<"/">>)

\* fs.existsSync
existsSync(fullPath) ==
    /\ IsUnderRoot(fullPath)
    /\ pathRelative(ProjectRoot, fullPath) \in fsEntries \cup Directories

\* entry.isDirectory() and entry.isFile()
isDirectory(fullPath) == pathRelative(ProjectRoot, fullPath) \in Directories
isFile(fullPath) == pathRelative(ProjectRoot, fullPath) \in fsEntries

RECURSIVE Ascending(_)
Ascending(S) ==
    IF S = {} THEN <<>>
    ELSE LET least == CHOOSE x \in S : \A y \in S \ {x} : StringLess(x, y)
         IN  <<least>> \o Ascending(S \ {least})

Reverse(s) == [k \in 1..Len(s) |-> s[Len(s) + 1 - k]]

\* the orders in which a directory's entries may come
ReaddirOrders == {"ascending", "descending"}

\* fs.readdirSync(dir) of a directory that can be read: the names of its
\* entries, in the order the file system gives them
readdirSync(dir, order) ==
    LET rel == IF dir = ProjectRoot THEN <<>> ELSE pathRelative(ProjectRoot, dir)
        names == Ascending({ NameOf(e) : e \in { x \in fsEntries \cup Directories :
                                                    ParentOf(x) = rel } })
    IN  IF order = "ascending" THEN names ELSE Reverse(names)

\* fs.readdirSync(dir) throws
readdirThrows(dir) ==
    dir # ProjectRoot /\ pathRelative(ProjectRoot, dir) \in unreadable

RECURSIVE scanDirectory(_, _, _, _, _)
RECURSIVE scanEntries(_, _, _, _, _, _, _)

\* the `for (const entry of entries)` loop of scanDirectory from entry k on
scanEntries(rootDir, dir, entries, k, patternRegex, excludeRegexes, order) ==
    IF k > Len(entries) THEN <<>>
    ELSE LET fullPath == pathJoin(dir, entries[k])
             relativePath == pathRelative(rootDir, fullPath)
             shouldExclude == \E n \in DOMAIN excludeRegexes :
                                 Test(excludeRegexes[n], relativePath)
             rest == scanEntries(rootDir, dir, entries, k + 1, patternRegex,
                                 excludeRegexes, order)
         IN  IF shouldExclude THEN rest
             ELSE IF isDirectory(fullPath)
                  THEN scanDirectory(rootDir, fullPath, patternRegex,
                                     excludeRegexes, order)
                       \o rest
             ELSE IF /\ isFile(fullPath)
                     /\ Test(patternRegex, relativePath)
                     /\ EndsWith(fullPath, TsExtension)
                     /\ ~EndsWith(fullPath, DtsExtension)
                  THEN <<fullPath>> \o rest
             ELSE rest

\* the catch block returns when the directory cannot be read
scanDirectory(rootDir, dir, patternRegex, excludeRegexes, order) ==
    IF readdirThrows(dir) THEN <<>>
    ELSE scanEntries(rootDir, dir, readdirSync(dir, order), 1, patternRegex,
                     excludeRegexes, order)

findFilesMatchingPattern(rootDir, pattern, excludePatterns, order) ==
    scanDirectory(rootDir, rootDir, globToRegex(pattern),
                  [n \in DOMAIN excludePatterns |-> globToRegex(excludePatterns[n])],
                  order)

\* the directories that scanDirectory is called on, below and including dir
RECURSIVE directoriesRead(_, _, _)
directoriesRead(rootDir, dir, excludeRegexes) ==
    IF readdirThrows(dir) THEN {dir}
    ELSE LET entries == { pathJoin(dir, name) :
                            name \in Range(readdirSync(dir, "ascending")) }
             entered == { f \in entries :
                            /\ isDirectory(f)
                            /\ \A n \in DOMAIN excludeRegexes :
                                  ~Test(excludeRegexes[n], pathRelative(rootDir, f)) }
         IN  {dir} \cup UNION { directoriesRead(rootDir, f, excludeRegexes) :
                                f \in entered }

\* tsconfig.include ?? ['**/*']
includePatternsOf(config) ==
    IF config.hasInclude THEN config.include ELSE <<EverythingPattern>>

excludePatternsOf_defaultsOnly(config) == DEFAULT_EXCLUDES

\* [...DEFAULT_EXCLUDES, ...(tsconfig.exclude ?? [])]
excludePatternsOf(config) == DEFAULT_EXCLUDES \o config.exclude

explicitFile_anyExtension(file) ==
    LET absolutePath == pathResolve(ProjectRoot, file)
    IN  IF existsSync(absolutePath) THEN <<absolutePath>> ELSE <<>>

\* what one iteration of explicitFiles.forEach pushes
explicitFile(file) ==
    LET absolutePath == pathResolve(ProjectRoot, file)
    IN  IF /\ existsSync(absolutePath)
           /\ EndsWith(absolutePath, TsExtension)
           /\ ~EndsWith(absolutePath, DtsExtension)
        THEN <<absolutePath>>
        ELSE <<>>

\* src/**/*
SrcTreePattern ==
    <<"s","r","c","/","*","*","/","*">>
\* lib/*
LibFilesPattern ==
    <<"l","i","b","/","*">>
\* src/gen
SrcGenPattern ==
    <<"s","r","c","/","g","e","n">>
\* **/gen
AnyGenPattern ==
    <<"*","*","/","g","e","n">>
\* src/*
SrcEntriesPattern ==
    <<"s","r","c","/","*">>
\* ./src/a.ts
DotSrcAFile ==
    <<".","/","s","r","c","/","a",".","t","s">>
\* missing.ts
MissingFile ==
    <<"m","i","s","s","i","n","g",".","t","s">>

\* the pushes of explicitFiles.forEach from entry k on
RECURSIVE explicitFilesFrom(_, _)
explicitFilesFrom(explicitFiles, k) ==
    IF k > Len(explicitFiles) THEN <<>>
    ELSE explicitFile(explicitFiles[k]) \o explicitFilesFrom(explicitFiles, k + 1)

\* the pushes of includePatterns.forEach from pattern k on
RECURSIVE matchedFilesFrom(_, _, _)
matchedFilesFrom(patterns, k, excludePatterns) ==
    IF k > Len(patterns) THEN <<>>
    ELSE findFilesMatchingPattern(ProjectRoot, patterns[k], excludePatterns,
                                  "ascending")
         \o matchedFilesFrom(patterns, k + 1, excludePatterns)

\* the list returned for a tsconfig.json that exists and parses, when the
\* entries of every directory come in ascending order
getTypeScriptFiles(config) ==
    Sort(Unique(explicitFilesFrom(config.files, 1)
                \o matchedFilesFrom(includePatternsOf(config), 1,
                                    excludePatternsOf(config))))

IncludePatterns == {EverythingPattern, SrcTreePattern, LibFilesPattern}
ExcludePatterns == {SrcGenPattern, AnyGenPattern, SrcEntriesPattern}
ExplicitFiles == {SrcAFile, DotSrcAFile, SrcGenBFile, SrcADeclFile, MissingFile}

\* the most entries that include, exclude and files have together
MaxConfigEntries == 3

ConfigSizes ==
    { x \in (0..MaxConfigEntries) \X (0..MaxConfigEntries) \X (0..MaxConfigEntries)
            \X (0..MaxConfigEntries) :
        x[1] + x[2] + x[3] + x[4] <= MaxConfigEntries }

\* lib/dist/f.ts
LibDistFFile ==
    <<"l","i","b","/","d","i","s","t","/","f",".","t","s">>

FileTrees ==
    { {SrcAFile, SrcADeclFile, SrcGenBFile, LibCFile, LibGenDFile, LibDistFFile,
       DistEFile, ReadmeFile} }

UnreadableChoices == { {}, {SrcGenPattern} }

\* **/gen/**
GenTreePattern ==
    <<"*","*","/","g","e","n","/","*","*">>

CallerPatterns == {GenTreePattern}

\* tsconfig.json with and without an include list
ConfigsOf(x) ==
    [parses : {TRUE}, hasInclude : {TRUE}, include : [1..x[1] -> IncludePatterns],
     exclude : [1..x[2] -> ExcludePatterns],
     files : [1..x[3] -> ExplicitFiles]]
    \cup
    (IF x[1] = 0
     THEN [parses : {TRUE}, hasInclude : {FALSE}, include : {<<>>},
           exclude : [1..x[2] -> ExcludePatterns],
           files : [1..x[3] -> ExplicitFiles]]
     ELSE {})

\* the options with and without excludePatterns
OptionsOf(x) ==
    [hasExcludePatterns : {TRUE}, excludePatterns : [1..x[4] -> CallerPatterns]]
    \cup (IF x[4] = 0 THEN {NoOptions} ELSE {})

\* a tsconfig.json that JSON.parse rejects
MalformedConfig == [NoConfig EXCEPT !.parses = FALSE]

InitFiles ==
    /\ gtfPc = "start"
    /\ tsconfigExists \in BOOLEAN
    /\ \/ \E x \in ConfigSizes : tsconfig \in ConfigsOf(x) /\ options \in OptionsOf(x)
       \/ tsconfig = MalformedConfig /\ options = NoOptions
    /\ ~tsconfigExists => tsconfig = NoConfig
    /\ fsEntries \in FileTrees
    /\ unreadable \in UnreadableChoices
    /\ gtfIndex = 0
    /\ allFiles = <<>>
    /\ gtfResult = <<>>
    /\ GlobOff /\ FieldsOff
    /\ CmpOff
    /\ DupOff
    /\ ExpOff
    /\ RunOff

\* `if (!fs.existsSync(tsconfigPath)) return null`
ReturnNull ==
    /\ gtfPc = "start"
    /\ ~tsconfigExists
    /\ gtfPc' = "null"
    /\ UNCHANGED <<tsconfig, fsEntries, gtfIndex, allFiles, gtfResult,
                   tsconfigExists, cmpVars, dupVars, expVars, runVars, globVars, fieldVars,
                   options, unreadable>>

\* JSON.parse(tsconfigContent) throws
ReadConfigThrows ==
    /\ gtfPc = "start"
    /\ tsconfigExists
    /\ ~tsconfig.parses
    /\ gtfPc' = "raised"
    /\ UNCHANGED <<tsconfig, fsEntries, gtfIndex, allFiles, gtfResult,
                   tsconfigExists, cmpVars, dupVars, expVars, runVars, globVars, fieldVars,
                   options, unreadable>>

\* tsconfig.json is read and parsed
ReadConfig ==
    /\ gtfPc = "start"
    /\ tsconfigExists
    /\ tsconfig.parses
    /\ gtfPc' = "explicit"
    /\ gtfIndex' = 1
    /\ UNCHANGED <<tsconfig, fsEntries, allFiles, gtfResult,
                   tsconfigExists, cmpVars, dupVars, expVars, runVars, globVars, fieldVars,
                   options, unreadable>>

\* one iteration of explicitFiles.forEach
AddExplicitFile ==
    /\ gtfPc = "explicit"
    /\ gtfIndex <= Len(tsconfig.files)
    /\ allFiles' = allFiles \o explicitFile(tsconfig.files[gtfIndex])
    /\ gtfIndex' = gtfIndex + 1
    /\ UNCHANGED <<gtfPc, tsconfig, fsEntries, gtfResult,
                   tsconfigExists, cmpVars, dupVars, expVars, runVars, globVars, fieldVars,
                   options, unreadable>>

\* explicitFiles.forEach is over
ExplicitFilesDone ==
    /\ gtfPc = "explicit"
    /\ gtfIndex > Len(tsconfig.files)
    /\ gtfPc' = "include"
    /\ gtfIndex' = 1
    /\ UNCHANGED <<tsconfig, fsEntries, allFiles, gtfResult,
                   tsconfigExists, cmpVars, dupVars, expVars, runVars, globVars, fieldVars,
                   options, unreadable>>

\* one iteration of includePatterns.forEach
AddMatchedFiles ==
    /\ gtfPc = "include"
    /\ gtfIndex <= Len(includePatternsOf(tsconfig))
    /\ \E order \in ReaddirOrders :
          allFiles' = allFiles \o findFilesMatchingPattern(ProjectRoot,
                                      includePatternsOf(tsconfig)[gtfIndex],
                                      excludePatternsOf(tsconfig), order)
    /\ gtfIndex' = gtfIndex + 1
    /\ UNCHANGED <<gtfPc, tsconfig, fsEntries, gtfResult,
                   tsconfigExists, cmpVars, dupVars, expVars, runVars, globVars, fieldVars,
                   options, unreadable>>

\* `return Array.from(new Set(allFiles)).sort()`
ReturnFiles ==
    /\ gtfPc = "include"
    /\ gtfIndex > Len(includePatternsOf(tsconfig))
    /\ gtfResult' = Sort(Unique(allFiles))
    /\ gtfPc' = "done"
    /\ UNCHANGED <<tsconfig, fsEntries, gtfIndex, allFiles,
                   tsconfigExists, cmpVars, dupVars, expVars, runVars, globVars, fieldVars,
                   options, unreadable>>

NextFiles ==
    \/ ReturnNull
    \/ ReadConfigThrows
    \/ ReadConfig
    \/ AddExplicitFile
    \/ ExplicitFilesDone
    \/ AddMatchedFiles
    \/ ReturnFiles

SpecFiles == InitFiles /\ [][NextFiles]_vars

----------------------------------------------------------------------------
(* Claims about getTypeScriptFiles *)

\* C19: the returned list is strictly ascending in the order of the code
\* units of its paths, so that it is sorted and has no path twice
C19_UniqueAndSorted ==
    gtfPc = "done" =>
        \A i, j \in DOMAIN gtfResult :
            i < j => StringLess(gtfResult[i], gtfResult[j])

\* a returned list of several paths that were collected out of order, one of
\* them both from the explicit list and from an include pattern
C19_Witness ==
    /\ gtfPc = "done"
    /\ Len(gtfResult) >= 2
    /\ \E i, j \in DOMAIN allFiles : i < j /\ StringLess(allFiles[j], allFiles[i])
    /\ \E i, j \in DOMAIN allFiles :
          /\ i <= Len(tsconfig.files) /\ j > Len(tsconfig.files)
          /\ allFiles[i] = allFiles[j]

\* the path's place under the project root
RelativeOf(fullPath) == pathRelative(ProjectRoot, fullPath)

\* the directories whose relative path the glob pattern matches
MatchedDirectories(pattern) ==
    { d \in Directories : GlobMatchFrom(pattern, 1, d, 1) }

\* the relative path is in the subtree of the directory
InSubtree(rel, d) == StartsWith(rel, d \o <<"/">>)

\* the path is in the subtree of a directory that the pattern matches
Pruned(pattern, fullPath) ==
    \E d \in MatchedDirectories(pattern) : InSubtree(RelativeOf(fullPath), d)

\* the path is one that tsconfig.files names
NamedExplicitly(fullPath) ==
    \E m \in DOMAIN tsconfig.files :
        pathResolve(ProjectRoot, tsconfig.files[m]) = fullPath

\* tsconfig without its n-th exclude pattern
WithoutExclude(n) ==
    [tsconfig EXCEPT !.exclude =
        SubSeq(tsconfig.exclude, 1, n - 1)
        \o SubSeq(tsconfig.exclude, n + 1, Len(tsconfig.exclude))]

\* the files outside the directories that the n-th exclude pattern matches,
\* and not matched by it themselves, are those enumerated without the pattern
SiblingsUnaffected(n) ==
    LET pattern == tsconfig.exclude[n]
        Outside(list) ==
            { f \in Range(list) :
                /\ ~Pruned(pattern, f)
                /\ ~GlobMatchFrom(pattern, 1, RelativeOf(f), 1) }
    IN  Outside(gtfResult) = Outside(getTypeScriptFiles(WithoutExclude(n)))

\* C20: when an exclude pattern matches a directory, the returned list has no
\* file of that directory's subtree, and the files of the other subtrees are
\* those returned without the pattern
C20_ExcludedSubtreePruned ==
    gtfPc = "done" =>
        \A n \in DOMAIN tsconfig.exclude :
            MatchedDirectories(tsconfig.exclude[n]) # {} =>
                /\ \A k \in DOMAIN gtfResult :
                      ~Pruned(tsconfig.exclude[n], gtfResult[k])
                /\ SiblingsUnaffected(n)

\* C20, amended: when an exclude pattern matches a directory, the only files
\* of that directory's subtree in the returned list are those that
\* tsconfig.files names, and the files of the other subtrees are those
\* returned without the pattern
C20_ExcludedSubtreePrunedUnlessNamed ==
    gtfPc = "done" =>
        \A n \in DOMAIN tsconfig.exclude :
            MatchedDirectories(tsconfig.exclude[n]) # {} =>
                /\ \A k \in DOMAIN gtfResult :
                      Pruned(tsconfig.exclude[n], gtfResult[k])
                          => NamedExplicitly(gtfResult[k])
                /\ SiblingsUnaffected(n)

\* a returned list for an exclude pattern that has pruned a file which the
\* list without the pattern has, with a file of another subtree in it
C20_Witness ==
    /\ gtfPc = "done"
    /\ \E n \in DOMAIN tsconfig.exclude :
          /\ MatchedDirectories(tsconfig.exclude[n]) # {}
          /\ \E f \in Range(getTypeScriptFiles(WithoutExclude(n))) :
                Pruned(tsconfig.exclude[n], f) /\ f \notin Range(gtfResult)
          /\ \E f \in Range(gtfResult) : ~Pruned(tsconfig.exclude[n], f)

\* the relative path matches one of the glob patterns
MatchesSome(patterns, rel) ==
    \E n \in DOMAIN patterns : GlobMatchFrom(patterns[n], 1, rel, 1)

\* the directories that hold the relative path, nearest last
AncestorsOf(rel) == { SubSeq(rel, 1, k - 1) : k \in PositionsOf(rel, "/") }

\* the file has the extension of a source file and not that of a declaration
HasSourceExtension(rel) ==
    EndsWith(rel, TsExtension) /\ ~EndsWith(rel, DtsExtension)

\* C21: a file of the project is in the returned list exactly when it ends in
\* .ts and not in .d.ts and it is named in files, or its relative path matches
\* an include pattern and no exclude pattern
C21_IncludedExactlyWhen ==
    gtfPc = "done" =>
        \A rel \in fsEntries :
            pathJoin(ProjectRoot, rel) \in Range(gtfResult)
            <=> /\ HasSourceExtension(rel)
                /\ \/ NamedExplicitly(pathJoin(ProjectRoot, rel))
                   \/ /\ MatchesSome(includePatternsOf(tsconfig), rel)
                      /\ ~MatchesSome(excludePatternsOf(tsconfig), rel)

\* C21, amended: a file of the project is in the returned list exactly when
\* it ends in .ts and not in .d.ts and it is named in files, or its relative
\* path matches an include pattern, neither it nor the relative path of a
\* directory above it matches an exclude pattern, and every directory above
\* it can be read
C21_IncludedExactlyWhenNotPruned ==
    gtfPc = "done" =>
        /\ \A rel \in fsEntries :
            pathJoin(ProjectRoot, rel) \in Range(gtfResult)
            <=> /\ HasSourceExtension(rel)
                /\ \/ NamedExplicitly(pathJoin(ProjectRoot, rel))
                   \/ /\ MatchesSome(includePatternsOf(tsconfig), rel)
                      /\ \A p \in AncestorsOf(rel) \cup {rel} :
                            ~MatchesSome(excludePatternsOf(tsconfig), p)
                      /\ AncestorsOf(rel) \cap unreadable = {}
        /\ \A k \in DOMAIN gtfResult : RelativeOf(gtfResult[k]) \in fsEntries

\* a returned list that has a file of an excluded directory, which files names, lacks a
\* declaration file that an include pattern matches, and lacks a source file
\* that an include pattern matches because a directory above it is excluded
C21_Witness ==
    /\ gtfPc = "done"
    /\ \E rel \in fsEntries :
          /\ pathJoin(ProjectRoot, rel) \in Range(gtfResult)
          /\ \E p \in AncestorsOf(rel) :
                MatchesSome(excludePatternsOf(tsconfig), p)
    /\ \E rel \in fsEntries :
          /\ EndsWith(rel, DtsExtension)
          /\ MatchesSome(includePatternsOf(tsconfig), rel)
          /\ pathJoin(ProjectRoot, rel) \notin Range(gtfResult)
    /\ \E rel \in fsEntries :
          /\ HasSourceExtension(rel)
          /\ MatchesSome(includePatternsOf(tsconfig), rel)
          /\ ~MatchesSome(excludePatternsOf(tsconfig), rel)
          /\ pathJoin(ProjectRoot, rel) \notin Range(gtfResult)

----------------------------------------------------------------------------
(* lib/get-typescript-files.ts: one test of globToRegex(pattern) on a path *)

PatternChars == {"a", "/", "*"}
PathChars == {"a", "b", "/"}

MaxPatternLen == 4
MaxPathLen == 4

GlobPatterns == UNION { [1..n -> PatternChars] : n \in 0..MaxPatternLen }

\* relative paths: segments that are not empty, joined by the separator
RelativePaths ==
    { s \in UNION { [1..n -> PathChars] : n \in 1..MaxPathLen } :
        /\ s[1] # "/"
        /\ s[Len(s)] # "/"
        /\ \A k \in 1..(Len(s) - 1) : ~(s[k] = "/" /\ s[k + 1] = "/") }

InitGlob ==
    /\ globPc = "test"
    /\ globPattern \in GlobPatterns
    /\ globPath \in RelativePaths
    /\ globMatched = FALSE
    /\ tsconfigExists = TRUE
    /\ CmpOff
    /\ DupOff
    /\ ExpOff
    /\ RunOff
    /\ FilesOff /\ FieldsOff

\* regex.test(relativePath) with regex = globToRegex(pattern)
TestGlob ==
    /\ globPc = "test"
    /\ globMatched' = Test(globToRegex(globPattern), globPath)
    /\ globPc' = "done"
    /\ UNCHANGED <<globPattern, globPath, tsconfigExists, cmpVars, dupVars,
                   expVars, runVars, filesVars, fieldVars>>

NextGlob == TestGlob

SpecGlob == InitGlob /\ [][NextGlob]_vars

----------------------------------------------------------------------------
(* Claims about globToRegex *)

\* position j of the path is where a segment starts, or the end of the path
AtSegmentStart(s, j) == j = 1 \/ j = Len(s) + 1 \/ s[j - 1] = "/"

\* position j of the path is where a segment ends
AtSegmentEnd(s, j) == j = Len(s) + 1 \/ s[j] = "/" \/ s[j - 1] = "/"

\* the stated semantics: the path from position j on matches the pattern
\* from position i on, where * is a run of characters other than the
\* separator, ** is zero or more complete segments (with the separator that
\* follows it in the pattern), and any other character is itself
RECURSIVE StatedMatchFrom(_, _, _, _)
StatedMatchFrom(p, i, s, j) ==
    IF i > Len(p) THEN j > Len(s)
    ELSE IF p[i] = "*" /\ i < Len(p) /\ p[i + 1] = "*"
         THEN IF i + 2 <= Len(p) /\ p[i + 2] = "/"
              THEN \/ StatedMatchFrom(p, i + 3, s, j)
                   \/ /\ AtSegmentStart(s, j)
                      /\ \E k \in j..Len(s) :
                            s[k] = "/" /\ StatedMatchFrom(p, i + 3, s, k + 1)
              ELSE \/ StatedMatchFrom(p, i + 2, s, j)
                   \/ /\ AtSegmentStart(s, j)
                      /\ \E k \in (j + 1)..(Len(s) + 1) :
                            AtSegmentEnd(s, k) /\ StatedMatchFrom(p, i + 2, s, k)
    ELSE IF p[i] = "*"
         THEN \E k \in j..(Len(s) + 1) :
                 /\ \A n \in j..(k - 1) : s[n] # "/"
                 /\ StatedMatchFrom(p, i + 1, s, k)
    ELSE j <= Len(s) /\ s[j] = p[i] /\ StatedMatchFrom(p, i + 1, s, j + 1)

\* C22: the pattern's regular expression matches the path exactly when the
\* whole path matches the pattern under the stated semantics of *, ** and
\* the other characters
C22_GlobSemantics ==
    globPc = "done" =>
        (globMatched <=> StatedMatchFrom(globPattern, 1, globPath, 1))

----------------------------------------------------------------------------
(* Claims about the enumeration's exclusions *)

\* C23: no returned file has a relative path that a pattern of
\* options.excludePatterns matches, none lies in a directory that the default
\* excludes match, and with an empty options.excludePatterns the list is the
\* one returned without the option
C23_CallerExcludesApplied ==
    gtfPc = "done" =>
        /\ \A k \in DOMAIN gtfResult :
              /\ ~MatchesSome(options.excludePatterns, RelativeOf(gtfResult[k]))
              /\ \A p \in AncestorsOf(RelativeOf(gtfResult[k])) :
                    ~MatchesSome(DEFAULT_EXCLUDES, p)
        /\ options.excludePatterns = <<>> => gtfResult = getTypeScriptFiles(tsconfig)

\* the names of the reserved directories
ReservedNames == Range(DEFAULT_EXCLUDES)

\* the directories that the walk for an include pattern reads
DirectoriesWalked ==
    directoriesRead(ProjectRoot, ProjectRoot,
                    [n \in DOMAIN excludePatternsOf(tsconfig) |->
                        globToRegex(excludePatternsOf(tsconfig)[n])])

\* C24: when the enumeration has walked the tree, it has read no directory
\* with a reserved name, and no returned file lies in one, at any depth
C24_ReservedDirectoriesNeverRead ==
    (gtfPc = "done" /\ Len(includePatternsOf(tsconfig)) > 0) =>
        /\ \A d \in DirectoriesWalked \ {ProjectRoot} :
              NameOf(RelativeOf(d)) \notin ReservedNames
        /\ \A k \in DOMAIN gtfResult :
              \A p \in AncestorsOf(RelativeOf(gtfResult[k])) :
                  NameOf(p) \notin ReservedNames

----------------------------------------------------------------------------
(* Claims about repeated runs *)

\* what allFiles holds after both loops when every directory gives its
\* entries in ascending order
CollectedAscending ==
    explicitFilesFrom(tsconfig.files, 1)
    \o matchedFilesFrom(includePatternsOf(tsconfig), 1, excludePatternsOf(tsconfig))

----------------------------------------------------------------------------
(* Claims about the order and the count of the violations handed over *)

\* violation v does not come after violation w by file path, then line
InReportOrder(v, w) ==
    \/ StringLess(PathText(v.file), PathText(w.file))
    \/ v.file = w.file /\ v.line <= w.line

\* a list of violations is ordered by file path and, within a file, by line
OrderedByFileThenLine(list) ==
    \A i, j \in DOMAIN list : i < j => InReportOrder(list[i], list[j])

\* C26: the violations that the duplicate check has handed to the formatter
\* when it is done are ordered by file path and, within a file, by line
C26_ViolationsOrdered ==
    pc = "done" => OrderedByFileThenLine(violations)

\* the violations that the export check has handed to the formatter when it
\* is done are ordered by file path and, within a file, by line
ExportViolationsOrdered ==
    runPc = "done" => OrderedByFileThenLine(runViolations)

ExportResultConsistent ==
    runPc = "done" =>
        /\ runResult.passed <=> runResult.exitCode = 0
        /\ runResult.exitCode = 0 <=> runResult.violationCount = 0
        /\ runResult.exitCode \in {0, 1}
        /\ runResult.violationCount = Len(runViolations)
        /\ Len(runResult.violations) = Len(runViolations)

----------------------------------------------------------------------------
(* Claims about what a classification depends on *)

\* the statements that declare an exported const
ConstStatements ==
    { stmt \in ExportStatements :
        StartsWith(Head(stmt), <<"e","x","p","o","r","t"," ","c","o","n","s","t"," ">>) }

\* the violations of a list that are on line i
ViolationsOn(list, i) == { list[k] : k \in { n \in DOMAIN list : list[n].line = i } }

\* C28: once a file that starts with an exported const declaration is scanned,
\* the violations on the declaration's line are those of the file that ends
\* with the declaration, whatever lines follow it
C28_LaterLinesDoNotMatter ==
    Scanned =>
        \A stmt \in ConstStatements :
            (Len(scanLines) > Len(stmt) /\ SubSeq(scanLines, 1, Len(stmt)) = stmt) =>
                ViolationsOn(scanViolations, 1)
                = ViolationsOn(scanLinesFrom(scanPath, stmt, 1, <<>>), 1)

----------------------------------------------------------------------------
(* One call of extractFields on an arbitrary line array and start line *)

MaxLines == 4

\* "  meta: {": a field whose type opens a nested block
NestedLine ==
    [PlainLine EXCEPT !.opens = 1,
                      !.field = [name |-> "meta", type |-> "{", optional |-> FALSE]]

\* the lines a file of the model is made of
LineKinds ==
    { PlainLine, DeclLine("User", FALSE), NestedLine, CloseLine,
      FieldLine([name |-> "id", type |-> "string", optional |-> FALSE]),
      FieldLine([name |-> "name", type |-> "string", optional |-> TRUE]) }

LineArrays == UNION { [1..n -> LineKinds] : n \in 0..MaxLines }

InitFields ==
    /\ efLines \in LineArrays
    /\ efStartLine \in 1..(Len(efLines) + 1)
    /\ efPc = "scan" /\ efI = efStartLine
    /\ efBraceCount = 0 /\ efFoundOpenBrace = FALSE /\ efFields = <<>>
    /\ tsconfigExists = TRUE
    /\ CmpOff /\ DupOff /\ ExpOff /\ RunOff /\ GtfOff

\* one pass of `for (let i = startLine; i < lines.length; i++)`
ScanFieldLine ==
    /\ efPc = "scan" /\ efI <= Len(efLines)
    /\ LET line  == efLines[efI]
           count == efBraceCount + line.opens - line.closes
           found == efFoundOpenBrace \/ line.opens > 0
       IN  /\ efBraceCount' = count
           /\ efFoundOpenBrace' = found
           /\ efFields' = IF found /\ count > 0 /\ line.field # NoField
                          THEN Append(efFields, line.field) ELSE efFields
           /\ IF found /\ count = 0
              THEN efPc' = "done" /\ efI' = efI
              ELSE efPc' = "scan" /\ efI' = efI + 1
    /\ UNCHANGED <<efLines, efStartLine, tsconfigExists, cmpVars, dupVars,
                   expVars, runVars, gtfVars>>

\* the loop ending at the last line without a failure
ReturnFields_raises ==
    /\ efPc = "scan" /\ efI > Len(efLines)
    /\ efPc' = "raised"
    /\ UNCHANGED <<efLines, efStartLine, efI, efBraceCount, efFoundOpenBrace,
                   efFields, tsconfigExists, cmpVars, dupVars, expVars,
                   runVars, gtfVars>>

\* `return fields` once i reaches lines.length
ReturnFields ==
    /\ efPc = "scan" /\ efI > Len(efLines)
    /\ efPc' = "done"
    /\ UNCHANGED <<efLines, efStartLine, efI, efBraceCount, efFoundOpenBrace,
                   efFields, tsconfigExists, cmpVars, dupVars, expVars,
                   runVars, gtfVars>>

NextFields == ScanFieldLine \/ ReturnFields

\* the loop is sequential code: a pass that can be taken is taken
SpecFields == InitFields /\ [][NextFields]_vars /\ WF_vars(NextFields)

\* braces opened less braces closed on lines s..i
RECURSIVE Depth(_, _, _)
Depth(lines, s, i) ==
    IF i < s THEN 0
    ELSE Depth(lines, s, i - 1) + lines[i].opens - lines[i].closes

\* some line of s..i has an opening brace
Opened(lines, s, i) == \E k \in s..i : lines[k].opens > 0

\* the lines from s on at which every brace opened so far is closed
ClosedAt(lines, s) ==
    { i \in s..Len(lines) : Opened(lines, s, i) /\ Depth(lines, s, i) = 0 }

\* the last line the declaration that starts at s reaches: the line that
\* closes it, the last line of the file if nothing closes it
LastLineOf(lines, s) ==
    IF ClosedAt(lines, s) = {} THEN Len(lines)
    ELSE CHOOSE i \in ClosedAt(lines, s) : \A k \in ClosedAt(lines, s) : i <= k

\* the fields on lines i..last that are inside the braces opened from s on
RECURSIVE FieldsInside(_, _, _, _)
FieldsInside(lines, s, i, last) ==
    IF i > last THEN <<>>
    ELSE (IF /\ Opened(lines, s, i) /\ Depth(lines, s, i) > 0
             /\ lines[i].field # NoField
          THEN <<lines[i].field>> ELSE <<>>)
         \o FieldsInside(lines, s, i + 1, last)

\* the declarations after line s that extractTypeDefinitions has to emit
LaterDeclarations(lines, s) ==
    { i \in (s + 1)..Len(lines) :
        /\ i \in DeclLines([path |-> "src/types.ts", lines |-> lines])
        /\ Len(FieldsInside(lines, i, i, LastLineOf(lines, i))) >= MinFields }

\* C29: every call of extractFields ends, without raising, with the fields
\* found on the lines from the start line up to the line that closes the
\* braces, up to the end of the file when nothing closes them; and the
\* declarations after an unclosed one are still extracted from the file.
C29_ExtractFieldsTotal ==
    <>[](/\ efPc = "done"
         /\ efFields = FieldsInside(efLines, efStartLine, efStartLine,
                                    LastLineOf(efLines, efStartLine))
         /\ efFields = extractFields(efLines, efStartLine)
         /\ ClosedAt(efLines, efStartLine) = {} =>
               \A i \in LaterDeclarations(efLines, efStartLine) :
                   \E d \in Range(extractTypeDefinitions(
                                [path |-> "src/types.ts", lines |-> efLines])) :
                       d.line = i)

\* a declaration that nothing closes has been scanned to the end of the file,
\* fields were found in it, and another declaration follows it
C29_Witness ==
    /\ efPc = "done" /\ efI = Len(efLines) + 1
    /\ efFoundOpenBrace /\ efBraceCount > 0
    /\ Len(efFields) >= MinFields
    /\ LaterDeclarations(efLines, efStartLine) # {}

\* C30: whenever tsconfig.json exists, getTypeScriptFiles does not raise,
\* whatever the file contains and whichever directories cannot be read: the
\* absence of the file is the only thing that stops the enumeration.
C30_OnlyMissingConfigStops ==
    tsconfigExists => gtfPc # "raised"

====
